---- MODULE Spec2Model ----
(***************************************************************************)
(* The hotkey-driven recording / transcription controller of ihear         *)
(* (src/ihear/menubar.py): IhearMenuApp, its AudioRecorder and the         *)
(* daemon threads running IhearMenuApp._process_audio.                     *)
(*                                                                         *)
(* Hotkey handlers run one at a time on the main (event) thread.  Every    *)
(* dispatched transcription runs on a thread of its own and shares the     *)
(* controller's fields with the main thread without any lock, so its       *)
(* steps interleave with the handlers.                                     *)
(***************************************************************************)
EXTENDS Naturals, Integers, FiniteSets, Sequences, TLC

\* Bounds of the model.
\* Audio blocks kept apart in AudioRecorder._frames (0 = nothing captured).
MaxFrames == 2
\* Worker threads (started and not yet reused) kept apart at one time.
MaxWorkers == 2

Slots == 1..MaxWorkers

\* Outcomes of opening the input device in AudioRecorder.start:
\* "ctor_fail": sd.InputStream(...) raises; "start_fail": stream.start() raises.
StartOutcomes == {"ok", "ctor_fail", "start_fail"}
\* Outcomes of the transcription backend, the clipboard write and the paste keystroke.
BackendOutcomes == {"ok", "fail"}
ClipboardOutcomes == {"ok", "raise"}
PasteOutcomes == {"ok", "fail"}

VARIABLES
    recording,          \* IhearMenuApp._recording
    continuous_mode,    \* IhearMenuApp._continuous_mode
    processing,         \* IhearMenuApp._processing
    status,             \* IhearMenuApp._status_item.title (which message)
    indicator,          \* RecordingIndicator._window is not None
    stream,             \* AudioRecorder._stream: "none", "unstarted" or "active"
    frames,             \* len(AudioRecorder._frames)
    openStreams,        \* InputStream objects created and not yet closed
    job,                \* per worker thread: position, backend result, temporary file
    mainPc,             \* position of the main thread inside _on_double_tap
    event,              \* the step taken last and what it let out
    insert_destination  \* Config.insert_destination

recorderVars == <<stream, frames, openStreams>>
flagVars == <<recording, continuous_mode, processing>>
controllerVars ==
    <<recording, continuous_mode, processing, status, indicator, stream,
      frames, openStreams, job, mainPc, event, insert_destination>>

FreeJob ==
    [pc |-> "free", origin |-> "none", backend |-> "pending", file |-> FALSE, unlinks |-> 0]

\* The thread object created by threading.Thread(target=self._process_audio,
\* args=(audio_path,)): the temporary file written by AudioRecorder.stop exists.
\* origin: the handler that called _stop_recording.
NewJob(origin) ==
    [pc |-> "transcribe", origin |-> origin, backend |-> "pending", file |-> TRUE, unlinks |-> 0]

\* What the step taken last was and what it let out: the worker it belongs to
\* (0: none), the notifications fired, and what became of the transcript.
EvInj(name, slot, notes, inj) == [name |-> name, slot |-> slot, notes |-> notes, inj |-> inj]
Ev(name, slot, notes) == EvInj(name, slot, notes, "none")

\* A worker record whose thread has ended (or never started) can be reused.
ReusableSlots == {s \in Slots : job[s].pc \in {"free", "done"}}
FreeSlot == CHOOSE s \in ReusableSlots : \A t \in ReusableSlots : s <= t

----------------------------------------------------------------------------
(* AudioRecorder *)

\* AudioRecorder.start: returns at once when a stream object is held.
AudioRecorder_start(outcome) ==
    IF stream # "none"
    THEN UNCHANGED recorderVars
    ELSE /\ frames' = 0
         /\ stream' = CASE outcome = "ok" -> "active"
                        [] outcome = "start_fail" -> "unstarted"
                        [] OTHER -> "none"
         /\ openStreams' = IF outcome = "ctor_fail" THEN openStreams ELSE openStreams + 1

\* AudioRecorder.start raises (the device could not be opened or started).
start_raises(outcome) == stream = "none" /\ outcome # "ok"

\* AudioRecorder.stop up to the check of the captured frames: the stream is
\* stopped, closed and forgotten before the frames are looked at.
AudioRecorder_stop ==
    IF stream = "none"
    THEN UNCHANGED recorderVars
    ELSE /\ stream' = "none"
         /\ openStreams' = openStreams - 1
         /\ UNCHANGED frames

\* AudioRecorder.stop raises: "Recording is not active." or "No audio was captured."
stop_raises == stream = "none" \/ frames = 0

\* AudioRecorder._callback: the audio thread appends a block while the stream runs.
AudioRecorder_callback ==
    /\ stream = "active"
    /\ frames < MaxFrames
    /\ frames' = frames + 1
    /\ UNCHANGED <<stream, openStreams>>

----------------------------------------------------------------------------
(* IhearMenuApp: the controller *)

\* IhearMenuApp._start_recording
start_recording(outcome) ==
    /\ AudioRecorder_start(outcome)
    /\ IF start_raises(outcome)
       THEN /\ status' = "recording_error"
            /\ UNCHANGED <<recording, indicator>>
       ELSE /\ recording' = TRUE
            /\ indicator' = TRUE
            /\ status' = IF continuous_mode THEN "recording_tap" ELSE "recording_release"
    /\ UNCHANGED <<continuous_mode, processing, job>>

\* _stop_recording that starts the worker without setting the processing flag.
stop_recording_no_flag(origin) ==
    /\ AudioRecorder_stop
    /\ indicator' = FALSE
    /\ IF stop_raises
       THEN UNCHANGED <<recording, processing, job>>
       ELSE /\ ReusableSlots # {}
            /\ recording' = FALSE
            /\ UNCHANGED processing
            /\ job' = [job EXCEPT ![FreeSlot] = NewJob(origin)]

\* IhearMenuApp._stop_recording, all but the status text it leaves (stop_status):
\* on an error of AudioRecorder.stop only the indicator is hidden; otherwise the
\* flags are switched and the worker thread is started.
stop_recording(origin) ==
    /\ AudioRecorder_stop
    /\ indicator' = FALSE
    /\ IF stop_raises
       THEN UNCHANGED <<recording, processing, job>>
       ELSE /\ ReusableSlots # {}
            /\ recording' = FALSE
            /\ processing' = TRUE
            /\ job' = [job EXCEPT ![FreeSlot] = NewJob(origin)]

\* The status text _stop_recording sets.
stop_status == IF stop_raises THEN "recording_error" ELSE "transcribing"

\* _on_hotkey_press without its check of the processing flag.
on_hotkey_press_unguarded(outcome) ==
    IF continuous_mode
    THEN IF recording
         THEN /\ stop_recording("press")
              /\ status' = stop_status
              /\ UNCHANGED continuous_mode
         ELSE start_recording(outcome)
    ELSE IF ~recording
         THEN start_recording(outcome)
         ELSE UNCHANGED <<flagVars, status, indicator, recorderVars, job>>

\* IhearMenuApp._on_hotkey_press
on_hotkey_press(outcome) ==
    IF processing
    THEN UNCHANGED <<flagVars, status, indicator, recorderVars, job>>
    ELSE IF continuous_mode
         THEN IF recording
              THEN /\ stop_recording("press")
                   /\ status' = stop_status
                   /\ UNCHANGED continuous_mode
              ELSE start_recording(outcome)
         ELSE IF ~recording
              THEN start_recording(outcome)
              ELSE UNCHANGED <<flagVars, status, indicator, recorderVars, job>>

\* _on_hotkey_release without its check of the continuous flag.
on_hotkey_release_any_mode ==
    IF recording
    THEN /\ stop_recording("release")
         /\ status' = stop_status
         /\ UNCHANGED continuous_mode
    ELSE UNCHANGED <<flagVars, status, indicator, recorderVars, job>>

\* IhearMenuApp._on_hotkey_release
on_hotkey_release ==
    IF continuous_mode
    THEN UNCHANGED <<flagVars, status, indicator, recorderVars, job>>
    ELSE IF recording
         THEN /\ stop_recording("release")
              /\ status' = stop_status
              /\ UNCHANGED continuous_mode
         ELSE UNCHANGED <<flagVars, status, indicator, recorderVars, job>>

\* _on_double_tap stopping a running recording whichever way the flag is toggled.
on_double_tap_stop_both ==
    IF processing
    THEN /\ UNCHANGED <<flagVars, status, indicator, recorderVars, job, mainPc>>
         /\ event' = Ev("double_tap", 0, {})
    ELSE /\ continuous_mode' = ~continuous_mode
         /\ IF recording
            THEN /\ stop_recording("double_tap")
                 /\ IF stop_raises
                    THEN /\ status' = IF ~continuous_mode THEN "continuous_hint" ELSE "ready"
                         /\ event' = Ev("double_tap", 0,
                                {IF ~continuous_mode THEN "Continuous Mode" ELSE "Normal Mode"})
                         /\ UNCHANGED mainPc
                    ELSE /\ status' = "transcribing"
                         /\ event' = Ev("double_tap", 0, {})
                         /\ mainPc' = "double_tap_tail"
            ELSE /\ status' = IF ~continuous_mode THEN "continuous_hint" ELSE "ready"
                 /\ event' = Ev("double_tap", 0,
                        {IF ~continuous_mode THEN "Continuous Mode" ELSE "Normal Mode"})
                 /\ UNCHANGED <<recording, processing, indicator, recorderVars, job, mainPc>>

\* _on_double_tap without its check of the processing flag (and never stopping).
on_double_tap_unguarded ==
    /\ continuous_mode' = ~continuous_mode
    /\ status' = IF ~continuous_mode THEN "continuous_hint" ELSE "ready"
    /\ event' = Ev("double_tap", 0, {IF ~continuous_mode THEN "Continuous Mode" ELSE "Normal Mode"})
    /\ UNCHANGED <<recording, processing, indicator, recorderVars, job, mainPc>>

\* IhearMenuApp._on_double_tap.  When it stops a recording and the worker thread
\* is started, the rest of the handler (the "Normal Mode" notification and the
\* ready status) runs while that thread is already running: it is the separate
\* step on_double_tap_tail.  In every other case the handler is one step.
on_double_tap ==
    IF processing
    THEN /\ UNCHANGED <<flagVars, status, indicator, recorderVars, job, mainPc>>
         /\ event' = Ev("double_tap", 0, {})
    ELSE /\ continuous_mode' = ~continuous_mode
         /\ IF ~continuous_mode
            THEN /\ status' = "continuous_hint"
                 /\ event' = Ev("double_tap", 0, {"Continuous Mode"})
                 /\ UNCHANGED <<recording, processing, indicator, recorderVars, job, mainPc>>
            ELSE IF recording
                 THEN /\ stop_recording("double_tap")
                      /\ IF stop_raises
                         THEN /\ status' = "ready"
                              /\ event' = Ev("double_tap", 0, {"Normal Mode"})
                              /\ UNCHANGED mainPc
                         ELSE /\ status' = "transcribing"
                              /\ event' = Ev("double_tap", 0, {})
                              /\ mainPc' = "double_tap_tail"
                 ELSE /\ status' = "ready"
                      /\ event' = Ev("double_tap", 0, {"Normal Mode"})
                      /\ UNCHANGED <<recording, processing, indicator, recorderVars, job, mainPc>>

\* The end of _on_double_tap after _stop_recording has started the worker.
on_double_tap_tail ==
    /\ mainPc = "double_tap_tail"
    /\ mainPc' = "idle"
    /\ status' = "ready"
    /\ event' = Ev("double_tap_tail", 0, {"Normal Mode"})
    /\ UNCHANGED <<flagVars, indicator, recorderVars, job, insert_destination>>

----------------------------------------------------------------------------
(* The worker thread: IhearMenuApp._process_audio *)

\* IhearMenuApp._apply_transcript: what became of the text.
apply_transcript(clip, paste) ==
    IF clip = "raise" THEN "copy_raised"
    ELSE IF insert_destination = "paste"
         THEN (IF paste = "ok" THEN "pasted" ELSE "paste_failed")
         ELSE "clipboard"

\* The try / except part of _process_audio: the backend call and, when it
\* returns, the injection, the notification and the ready status; on any
\* exception the failure status and notification.
process_audio_try(s, result, clip, paste) ==
    LET inj == IF result = "ok" THEN apply_transcript(clip, paste) ELSE "none"
        raised == result = "fail" \/ inj = "copy_raised"
    IN  /\ job[s].pc = "transcribe"
        /\ job' = [job EXCEPT ![s] = [@ EXCEPT !.pc = "finally", !.backend = result]]
        /\ status' = IF raised THEN "failed" ELSE "ready"
        /\ event' = EvInj("process_audio", s,
                          {IF raised THEN "Transcription failed" ELSE "Transcription complete"},
                          inj)
        /\ UNCHANGED <<flagVars, indicator, recorderVars, mainPc, insert_destination>>

\* The worker's finally block also switching continuous mode off.
process_audio_clear_resets_mode(s) ==
    /\ job[s].pc = "finally"
    /\ processing' = FALSE
    /\ continuous_mode' = FALSE
    /\ job' = [job EXCEPT ![s] = [@ EXCEPT !.pc = "unlink"]]
    /\ event' = Ev("process_audio_clear", s, {})
    /\ UNCHANGED <<recording, status, indicator, recorderVars, mainPc, insert_destination>>

\* The processing flag cleared at the end of the try block only, not in finally.
process_audio_clear_on_success(s) ==
    /\ job[s].pc = "finally"
    /\ processing' = IF job[s].backend = "ok" THEN FALSE ELSE processing
    /\ job' = [job EXCEPT ![s] = [@ EXCEPT !.pc = "unlink"]]
    /\ event' = Ev("process_audio_clear", s, {})
    /\ UNCHANGED <<recording, continuous_mode, status, indicator, recorderVars,
                   mainPc, insert_destination>>

\* finally: self._processing = False
process_audio_clear(s) ==
    /\ job[s].pc = "finally"
    /\ processing' = FALSE
    /\ job' = [job EXCEPT ![s] = [@ EXCEPT !.pc = "unlink"]]
    /\ event' = Ev("process_audio_clear", s, {})
    /\ UNCHANGED <<recording, continuous_mode, status, indicator, recorderVars,
                   mainPc, insert_destination>>

\* The temporary file deleted at the end of the try block only, not in finally.
process_audio_unlink_on_success(s) ==
    /\ job[s].pc = "unlink"
    /\ job' = [t \in Slots |->
                 IF t = s
                 THEN [job[s] EXCEPT !.pc = "done",
                                     !.file = IF job[s].backend = "ok" THEN FALSE ELSE @,
                                     !.unlinks = IF job[s].file /\ job[s].backend = "ok"
                                                 THEN @ + 1 ELSE @]
                 ELSE IF job[t].pc = "done" THEN FreeJob ELSE job[t]]
    /\ event' = Ev("process_audio_unlink", s, {})
    /\ UNCHANGED <<flagVars, status, indicator, recorderVars, mainPc, insert_destination>>

\* finally: audio_path.unlink(missing_ok=True).  The thread ends; the record of
\* what it did is kept until the next thread ends.
process_audio_unlink(s) ==
    /\ job[s].pc = "unlink"
    /\ job' = [t \in Slots |->
                 IF t = s
                 THEN [job[s] EXCEPT !.pc = "done",
                                     !.file = FALSE,
                                     !.unlinks = IF job[s].file THEN @ + 1 ELSE @]
                 ELSE IF job[t].pc = "done" THEN FreeJob ELSE job[t]]
    /\ event' = Ev("process_audio_unlink", s, {})
    /\ UNCHANGED <<flagVars, status, indicator, recorderVars, mainPc, insert_destination>>

----------------------------------------------------------------------------
(* Hotkey strings: normalize_hotkey and format_hotkey *)

\* A string is the sequence of its characters.  Characters outside ASCII are
\* named by their code point: "U+2318" is the command sign, "U+21E7" the shift
\* sign, "U+2325" the option sign, "U+2303" the control sign (up arrowhead),
\* "U+00DF" the sharp s and "U+0007" the (non-printable) bell character.

VARIABLES
    tokens,             \* the pieces the raw string was typed from
    raw,                \* the argument of normalize_hotkey
    canonical,          \* normalize_hotkey(raw)
    display,            \* format_hotkey(canonical)
    reparsed,           \* normalize_hotkey(display)
    renormalized,       \* normalize_hotkey(canonical)
    hotkeyPc            \* which of the calls above have been made

hotkeyVars == <<tokens, raw, canonical, display, reparsed, renormalized, hotkeyPc>>

\* Characters str.strip() removes.
Whitespace == {" ", "\t"}

LowerLetters == <<"a", "b", "c", "d", "e", "f", "g", "h", "i", "j", "k", "l", "m", "n", "o", "p", "q", "r", "s", "t", "u", "v", "w", "x", "y", "z">>
UpperLetters == <<"A", "B", "C", "D", "E", "F", "G", "H", "I", "J", "K", "L", "M", "N", "O", "P", "Q", "R", "S", "T", "U", "V", "W", "X", "Y", "Z">>

Range(s) == {s[i] : i \in 1..Len(s)}

\* str.lower, one character
lower_char(c) ==
    IF \E i \in 1..Len(UpperLetters) : UpperLetters[i] = c
    THEN LowerLetters[CHOOSE i \in 1..Len(UpperLetters) : UpperLetters[i] = c]
    ELSE c

\* str.upper, one character: the sharp s becomes two letters
upper_char(c) ==
    IF \E i \in 1..Len(LowerLetters) : LowerLetters[i] = c
    THEN <<UpperLetters[CHOOSE i \in 1..Len(LowerLetters) : LowerLetters[i] = c]>>
    ELSE IF c = "U+00DF" THEN <<"S", "S">> ELSE <<c>>

\* str.lower
lower(s) == [i \in 1..Len(s) |-> lower_char(s[i])]

\* str.upper
RECURSIVE upper(_)
upper(s) == IF s = <<>> THEN <<>> ELSE upper_char(Head(s)) \o upper(Tail(s))

IsLetter(c) == c \in Range(LowerLetters) \cup Range(UpperLetters) \cup {"U+00DF"}

\* str.title: a letter after a non-letter in upper case, the other letters in lower case
RECURSIVE title_from(_, _)
title_from(s, afterLetter) ==
    IF s = <<>> THEN <<>>
    ELSE (IF afterLetter THEN <<lower_char(Head(s))>> ELSE upper_char(Head(s)))
         \o title_from(Tail(s), IsLetter(Head(s)))

title(s) == title_from(s, FALSE)

\* Every character taken as printable.
isprintable_always(c) == TRUE

\* str.isprintable, one character
isprintable(c) == c \notin {"U+0007", "\t"}

\* str.strip
RECURSIVE lstrip(_)
lstrip(s) == IF s # <<>> /\ Head(s) \in Whitespace THEN lstrip(Tail(s)) ELSE s

RECURSIVE rstrip(_)
rstrip(s) ==
    IF s # <<>> /\ s[Len(s)] \in Whitespace THEN rstrip(SubSeq(s, 1, Len(s) - 1)) ELSE s

strip(s) == rstrip(lstrip(s))

\* str.split("+"): the pieces between the separators, empty ones included
RECURSIVE split_from(_, _)
split_from(s, piece) ==
    IF s = <<>> THEN <<piece>>
    ELSE IF Head(s) = "+" THEN <<piece>> \o split_from(Tail(s), <<>>)
    ELSE split_from(Tail(s), Append(piece, Head(s)))

split(s) == split_from(s, <<>>)

\* "+".join
RECURSIVE join(_)
join(parts) ==
    IF parts = <<>> THEN <<>>
    ELSE IF Len(parts) = 1 THEN parts[1]
    ELSE parts[1] \o <<"+">> \o join(Tail(parts))

\* "".join
RECURSIVE concat(_)
concat(parts) == IF parts = <<>> THEN <<>> ELSE Head(parts) \o concat(Tail(parts))

\* dict.get(key, default) on a dictionary written as a set of <<key, value>> pairs
get(dict, key, default) ==
    IF \E p \in dict : p[1] = key THEN (CHOOSE p \in dict : p[1] = key)[2] ELSE default

Keys(dict) == {p[1] : p \in dict}

fn == <<"f", "n">>

MODIFIER_ALIASES ==
    { <<<<"c", "m", "d">>, <<"c", "o", "m", "m", "a", "n", "d">>>>,
      <<<<"U+2318">>, <<"c", "o", "m", "m", "a", "n", "d">>>>,
      <<<<"c", "o", "m", "m", "a", "n", "d">>, <<"c", "o", "m", "m", "a", "n", "d">>>>,
      <<<<"c", "o", "n", "t", "r", "o", "l">>, <<"c", "o", "n", "t", "r", "o", "l">>>>,
      <<<<"c", "t", "r", "l">>, <<"c", "o", "n", "t", "r", "o", "l">>>>,
      <<<<"^">>, <<"c", "o", "n", "t", "r", "o", "l">>>>,
      <<<<"o", "p", "t", "i", "o", "n">>, <<"o", "p", "t", "i", "o", "n">>>>,
      <<<<"a", "l", "t">>, <<"o", "p", "t", "i", "o", "n">>>>,
      <<<<"U+2325">>, <<"o", "p", "t", "i", "o", "n">>>>,
      <<<<"s", "h", "i", "f", "t">>, <<"s", "h", "i", "f", "t">>>>,
      <<<<"U+21E7">>, <<"s", "h", "i", "f", "t">>>> }

\* The modifiers in the order of their names.
MODIFIER_ORDER_by_name == <<<<"c", "o", "m", "m", "a", "n", "d">>,
                           <<"c", "o", "n", "t", "r", "o", "l">>,
                           <<"o", "p", "t", "i", "o", "n">>,
                           <<"s", "h", "i", "f", "t">>>>

MODIFIER_ORDER == <<<<"c", "o", "n", "t", "r", "o", "l">>,
                   <<"o", "p", "t", "i", "o", "n">>,
                   <<"s", "h", "i", "f", "t">>,
                   <<"c", "o", "m", "m", "a", "n", "d">>>>

KEY_ALIASES ==
    { <<<<"e", "n", "t", "e", "r">>, <<"r", "e", "t", "u", "r", "n">>>>,
      <<<<"r", "e", "t", "u", "r", "n">>, <<"r", "e", "t", "u", "r", "n">>>>,
      <<<<"s", "p", "a", "c", "e">>, <<"s", "p", "a", "c", "e">>>>,
      <<<<" ">>, <<"s", "p", "a", "c", "e">>>>,
      <<<<"s", "p", "a", "c", "e", "b", "a", "r">>, <<"s", "p", "a", "c", "e">>>>,
      <<<<"t", "a", "b">>, <<"t", "a", "b">>>>,
      <<<<"e", "s", "c", "a", "p", "e">>, <<"e", "s", "c", "a", "p", "e">>>>,
      <<<<"e", "s", "c">>, <<"e", "s", "c", "a", "p", "e">>>>,
      <<<<"d", "e", "l", "e", "t", "e">>, <<"d", "e", "l", "e", "t", "e">>>>,
      <<<<"b", "a", "c", "k", "s", "p", "a", "c", "e">>, <<"d", "e", "l", "e", "t", "e">>>> }

MODIFIER_DISPLAY ==
    { <<<<"c", "o", "m", "m", "a", "n", "d">>, <<"U+2318">>>>,
      <<<<"s", "h", "i", "f", "t">>, <<"U+21E7">>>>,
      <<<<"o", "p", "t", "i", "o", "n">>, <<"U+2325">>>>,
      <<<<"c", "o", "n", "t", "r", "o", "l">>, <<"U+2303">>>> }

KEY_DISPLAY ==
    { <<<<"s", "p", "a", "c", "e">>, <<"S", "p", "a", "c", "e">>>>,
      <<<<"r", "e", "t", "u", "r", "n">>, <<"R", "e", "t", "u", "r", "n">>>>,
      <<<<"t", "a", "b">>, <<"T", "a", "b">>>>,
      <<<<"e", "s", "c", "a", "p", "e">>, <<"E", "s", "c">>>>,
      <<<<"d", "e", "l", "e", "t", "e">>, <<"D", "e", "l", "e", "t", "e">>>> }

\* What a call gives back: the returned string, or the ValueError it raised.
Returned(value) == [ok |-> TRUE, value |-> value, error |-> "none"]
Raised(error) == [ok |-> FALSE, value |-> <<>>, error |-> error]
NotCalled == Raised("not called")

\* key = None
None == <<>>

\* The canonical string without the separators between its components.
components_unseparated(modifiers, key) ==
    IF key = None
    THEN Raised("A shortcut must include a primary key.")
    ELSE Returned(concat(Append(SelectSeq(MODIFIER_ORDER, LAMBDA mod : mod \in Range(modifiers)), key)))

\* The canonical string without the check for a primary key.
components_without_key_check(modifiers, key) ==
    Returned(join(SelectSeq(MODIFIER_ORDER, LAMBDA mod : mod \in Range(modifiers))
                  \o (IF key = None THEN <<>> ELSE <<key>>)))

\* normalize_hotkey, lines 109-114: the check for a primary key and the
\* canonical string.
components(modifiers, key) ==
    IF key = None
    THEN Raised("A shortcut must include a primary key.")
    ELSE LET ordered_modifiers == SelectSeq(MODIFIER_ORDER, LAMBDA mod : mod \in Range(modifiers))
         IN  Returned(join(Append(ordered_modifiers, key)))

\* normalize_hotkey, lines 91-107: the loop over the parts, from part i on.
RECURSIVE normalize_parts(_, _, _, _)
normalize_parts(parts, i, modifiers, key) ==
    IF i > Len(parts)
    THEN components(modifiers, key)
    ELSE LET part == parts[i]
             alias == get(MODIFIER_ALIASES, part, part)
             mapped == get(KEY_ALIASES, alias, alias)
         IN  IF alias \in Range(MODIFIER_ORDER)
             THEN normalize_parts(parts, i + 1,
                                  IF alias \in Range(modifiers) THEN modifiers
                                  ELSE Append(modifiers, alias),
                                  key)
             ELSE IF key # None
             THEN Raised("Only one non-modifier key can be used in a shortcut.")
             ELSE IF Len(mapped) = 1 /\ isprintable(mapped[1])
             THEN normalize_parts(parts, i + 1, modifiers, mapped)
             ELSE IF mapped \in Keys(KEY_DISPLAY)
             THEN normalize_parts(parts, i + 1, modifiers, mapped)
             ELSE Raised("Unsupported key in shortcut.")

\* The stripped, lower-cased, non-empty pieces of the list comprehension (line 80).
stripped_parts(lowered) ==
    SelectSeq([i \in 1..Len(split(lowered)) |-> lower(strip(split(lowered)[i]))],
              LAMBDA part : part # <<>>)

\* normalize_hotkey giving "fn" whenever one of the parts is fn.
normalize_hotkey_fn_anywhere(raw_) ==
    LET text == strip(raw_)
        lowered == lower(text)
        parts == stripped_parts(lowered)
    IN  IF text = <<>> THEN Raised("Hotkey cannot be empty.")
        ELSE IF lowered = fn THEN Returned(fn)
        ELSE IF parts = <<>> THEN Raised("Hotkey cannot be empty.")
        ELSE IF \E i \in 1..Len(parts) : parts[i] = fn THEN Returned(fn)
        ELSE normalize_parts(parts, 1, <<>>, None)

\* normalize_hotkey
normalize_hotkey(raw_) ==
    LET text == strip(raw_)
        lowered == lower(text)
        parts == stripped_parts(lowered)
    IN  IF text = <<>> THEN Raised("Hotkey cannot be empty.")
        ELSE IF lowered = fn THEN Returned(fn)
        ELSE IF parts = <<>> THEN Raised("Hotkey cannot be empty.")
        ELSE IF \E i \in 1..Len(parts) : parts[i] = fn
        THEN IF Len(parts) > 1
             THEN Raised("The fn key cannot be combined with other keys.")
             ELSE Returned(fn)
        ELSE normalize_parts(parts, 1, <<>>, None)

\* format_hotkey
format_hotkey(hotkey) ==
    IF hotkey = fn THEN fn
    ELSE LET parts == split(hotkey)
             key == parts[Len(parts)]
             modifiers == SubSeq(parts, 1, Len(parts) - 1)
             shown == concat([i \in 1..Len(modifiers) |->
                                 get(MODIFIER_DISPLAY, modifiers[i], title(modifiers[i]))])
         IN  IF key \in Keys(KEY_DISPLAY) THEN shown \o get(KEY_DISPLAY, key, key)
             ELSE IF Len(key) = 1 THEN shown \o upper(key)
             ELSE shown \o title(key)

\* Bound of the model: pieces a raw hotkey string is typed from.
MaxTokens == 3

\* The pieces raw strings are typed from, joined by "+", each with what it
\* stands for: a modifier (and which), a primary key (and which), the fn key,
\* nothing at all, or a key that is not supported.  They vary aliases, letter
\* case and surrounding blanks.
TypedTokens ==
    { [text |-> <<"c", "m", "d">>, kind |-> "modifier", name |-> <<"c", "o", "m", "m", "a", "n", "d">>],
      [text |-> <<" ", "S", "h", "i", "f", "t">>, kind |-> "modifier", name |-> <<"s", "h", "i", "f", "t">>],
      [text |-> <<"U+2318">>, kind |-> "modifier", name |-> <<"c", "o", "m", "m", "a", "n", "d">>],
      [text |-> <<"C", "T", "R", "L">>, kind |-> "modifier", name |-> <<"c", "o", "n", "t", "r", "o", "l">>],
      [text |-> <<"a", "l", "t", " ">>, kind |-> "modifier", name |-> <<"o", "p", "t", "i", "o", "n">>],
      [text |-> <<"s", "p", "a", "c", "e">>, kind |-> "key", name |-> <<"s", "p", "a", "c", "e">>],
      [text |-> <<"E", "n", "t", "e", "r">>, kind |-> "key", name |-> <<"r", "e", "t", "u", "r", "n">>],
      [text |-> <<"e", "s", "c">>, kind |-> "key", name |-> <<"e", "s", "c", "a", "p", "e">>],
      [text |-> <<"a">>, kind |-> "key", name |-> <<"a">>],
      [text |-> <<"B">>, kind |-> "key", name |-> <<"b">>],
      [text |-> <<"U+00DF">>, kind |-> "key", name |-> <<"U+00DF">>],
      [text |-> <<" ", "F", "n", " ">>, kind |-> "fn", name |-> <<>>],
      [text |-> <<>>, kind |-> "blank", name |-> <<>>],
      [text |-> <<" ">>, kind |-> "blank", name |-> <<>>],
      [text |-> <<"x", "y">>, kind |-> "unsupported", name |-> <<>>],
      [text |-> <<"U+0007">>, kind |-> "unsupported", name |-> <<>>] }

RawInputs == UNION {[1..n -> TypedTokens] : n \in 0..MaxTokens}

\* The hotkey functions are not in use.
HotkeyUnused ==
    /\ tokens = <<>>
    /\ raw = <<>>
    /\ canonical = NotCalled
    /\ display = <<>>
    /\ reparsed = NotCalled
    /\ renormalized = NotCalled
    /\ hotkeyPc = "unused"

\* A raw string is typed, as Config.hotkey holds it when __init__ reads it.
HotkeyTyped ==
    /\ tokens \in RawInputs
    /\ raw = join([i \in 1..Len(tokens) |-> tokens[i].text])
    /\ canonical = NotCalled
    /\ display = <<>>
    /\ reparsed = NotCalled
    /\ renormalized = NotCalled
    /\ hotkeyPc = "typed"

\* canonical_hotkey = normalize_hotkey(config.hotkey)
Normalize ==
    /\ hotkeyPc = "typed"
    /\ canonical' = normalize_hotkey(raw)
    /\ hotkeyPc' = "normalized"
    /\ UNCHANGED <<tokens, raw, display, reparsed, renormalized>>

\* hotkey_display = format_hotkey(canonical_hotkey)
Format ==
    /\ hotkeyPc = "normalized"
    /\ canonical.ok
    /\ display' = format_hotkey(canonical.value)
    /\ hotkeyPc' = "formatted"
    /\ UNCHANGED <<tokens, raw, canonical, reparsed, renormalized>>

\* normalize_hotkey applied to the display string
Reparse ==
    /\ hotkeyPc = "formatted"
    /\ reparsed' = normalize_hotkey(display)
    /\ hotkeyPc' = "reparsed"
    /\ UNCHANGED <<tokens, raw, canonical, display, renormalized>>

\* normalize_hotkey applied to the canonical string, as the next launch does
\* with the hotkey __init__ has stored
Renormalize ==
    /\ hotkeyPc = "reparsed"
    /\ renormalized' = normalize_hotkey(canonical.value)
    /\ hotkeyPc' = "renormalized"
    /\ UNCHANGED <<tokens, raw, canonical, display, reparsed>>

----------------------------------------------------------------------------
(* FnHotkeyMonitor: the single-key monitor *)

\* Time is counted in tenths of a second.
\* FnHotkeyMonitor.__init__: double_tap_window = 0.3
double_tap_window == 3
\* Bound of the model: the last reading of time.time() kept apart.
MaxClock == 9

VARIABLES
    monitoring,         \* FnHotkeyMonitor._global_monitor is not None
    pressed,            \* FnHotkeyMonitor._pressed
    last_press_time,    \* FnHotkeyMonitor._last_press_time
    on_double_tap_given,\* FnHotkeyMonitor._on_double_tap is not None
    now,                \* what time.time() returns
    callback,           \* the callback the last flags-changed event made the monitor call
    elapsed,            \* current_time - _last_press_time as that event measured it
    installed,          \* handlers NSEvent holds for the monitor (added and not removed)
    history             \* the last two callbacks made since the monitor was subscribed

fnVars == <<monitoring, pressed, last_press_time, on_double_tap_given, now, callback,
            elapsed, installed, history>>

\* FnHotkeyMonitor.__init__, with or without a double-tap handler.  The
\* clock reads a time of day, never one within the window after time 0.
FnHotkeyMonitor_init ==
    /\ monitoring = FALSE
    /\ pressed = FALSE
    /\ last_press_time = 0
    /\ on_double_tap_given \in BOOLEAN
    /\ now = double_tap_window
    /\ callback = "none"
    /\ elapsed = 0
    /\ installed = 0
    /\ history = <<>>

\* The monitor of a controller whose hotkey events are taken as they come.
FnUnused ==
    /\ monitoring = FALSE
    /\ pressed = FALSE
    /\ last_press_time = 0
    /\ on_double_tap_given = TRUE
    /\ now = double_tap_window
    /\ callback = "none"
    /\ elapsed = 0
    /\ installed = 0
    /\ history = <<>>

\* FnHotkeyMonitor.start without the check for a monitor already installed.
FnHotkeyMonitor_start_unguarded ==
    /\ monitoring' = TRUE
    /\ installed' = installed + 2
    /\ callback' = "none"
    /\ elapsed' = 0
    /\ UNCHANGED <<pressed, last_press_time, on_double_tap_given, now>>

\* FnHotkeyMonitor.start: the global and the local monitor are added, unless
\* a global monitor is held already.
FnHotkeyMonitor_start ==
    IF monitoring
    THEN UNCHANGED <<monitoring, pressed, last_press_time, on_double_tap_given, now,
                     callback, elapsed, installed>>
    ELSE /\ monitoring' = TRUE
         /\ installed' = installed + 2
         /\ callback' = "none"
         /\ elapsed' = 0
         /\ UNCHANGED <<pressed, last_press_time, on_double_tap_given, now>>

\* FnHotkeyMonitor.stop: the monitors held are removed, the state is reset.
FnHotkeyMonitor_stop ==
    /\ monitoring' = FALSE
    /\ installed' = IF monitoring THEN installed - 2 ELSE installed
    /\ pressed' = FALSE
    /\ last_press_time' = 0
    /\ callback' = "none"
    /\ elapsed' = 0
    /\ UNCHANGED <<on_double_tap_given, now>>

\* handle answering the level of the signal, not its changes.
handle_level_triggered(is_pressed) ==
    /\ monitoring
    /\ IF is_pressed
       THEN /\ pressed' = TRUE
            /\ elapsed' = now - last_press_time
            /\ IF on_double_tap_given /\ (now - last_press_time) < double_tap_window
               THEN callback' = "double_tap" /\ last_press_time' = 0
               ELSE callback' = "press" /\ last_press_time' = now
       ELSE pressed' = FALSE /\ callback' = "release" /\ elapsed' = 0 /\ UNCHANGED last_press_time
    /\ UNCHANGED <<monitoring, on_double_tap_given, now, installed>>

\* handle leaving the time of the press in place after a double-tap.
handle_timer_kept(is_pressed) ==
    /\ monitoring
    /\ IF is_pressed /\ ~pressed
       THEN /\ pressed' = TRUE
            /\ elapsed' = now - last_press_time
            /\ IF on_double_tap_given /\ (now - last_press_time) < double_tap_window
               THEN callback' = "double_tap" /\ UNCHANGED last_press_time
               ELSE callback' = "press" /\ last_press_time' = now
       ELSE IF ~is_pressed /\ pressed
       THEN pressed' = FALSE /\ callback' = "release" /\ elapsed' = 0 /\ UNCHANGED last_press_time
       ELSE callback' = "none" /\ elapsed' = 0 /\ UNCHANGED <<pressed, last_press_time>>
    /\ UNCHANGED <<monitoring, on_double_tap_given, now, installed>>

\* handle with a window that includes its end point.
handle_window_inclusive(is_pressed) ==
    /\ monitoring
    /\ IF is_pressed /\ ~pressed
       THEN /\ pressed' = TRUE
            /\ elapsed' = now - last_press_time
            /\ IF on_double_tap_given /\ (now - last_press_time) <= double_tap_window
               THEN callback' = "double_tap" /\ last_press_time' = 0
               ELSE callback' = "press" /\ last_press_time' = now
       ELSE IF ~is_pressed /\ pressed
       THEN pressed' = FALSE /\ callback' = "release" /\ elapsed' = 0 /\ UNCHANGED last_press_time
       ELSE callback' = "none" /\ elapsed' = 0 /\ UNCHANGED <<pressed, last_press_time>>
    /\ UNCHANGED <<monitoring, on_double_tap_given, now, installed>>

\* FnHotkeyMonitor.start.handle: a flags-changed event, the fn flag set or not
handle(is_pressed) ==
    /\ monitoring
    /\ IF is_pressed /\ ~pressed
       THEN /\ pressed' = TRUE
            /\ elapsed' = now - last_press_time
            /\ IF on_double_tap_given /\ (now - last_press_time) < double_tap_window
               THEN callback' = "double_tap" /\ last_press_time' = 0
               ELSE callback' = "press" /\ last_press_time' = now
       ELSE IF ~is_pressed /\ pressed
       THEN pressed' = FALSE /\ callback' = "release" /\ elapsed' = 0 /\ UNCHANGED last_press_time
       ELSE callback' = "none" /\ elapsed' = 0 /\ UNCHANGED <<pressed, last_press_time>>
    /\ UNCHANGED <<monitoring, on_double_tap_given, now, installed>>

\* time.time() moves on.
Tick ==
    /\ now < MaxClock
    /\ now' = now + 1
    /\ UNCHANGED <<monitoring, pressed, last_press_time, on_double_tap_given, callback,
                   elapsed, installed, history>>

\* The callbacks made, the last two of them.
Noted(called) ==
    IF called = "none" THEN history
    ELSE IF history = <<>> THEN <<called>>
    ELSE <<history[Len(history)], called>>

----------------------------------------------------------------------------
(* KeyComboHotkeyMonitor: the monitor of a key combination *)

VARIABLES
    combo,              \* the canonical hotkey KeyComboHotkeyMonitor was created for
    combo_monitoring,   \* KeyComboHotkeyMonitor._global_key_down is not None
    combo_pressed,      \* KeyComboHotkeyMonitor._pressed
    combo_installed,    \* handlers NSEvent holds for the monitor (added and not removed)
    combo_event,        \* the call or event taken last
    combo_callback,     \* the callback that event made the monitor call
    combo_last          \* the callback made last since the monitor was subscribed

comboVars == <<combo, combo_monitoring, combo_pressed, combo_installed, combo_event,
               combo_callback, combo_last>>

\* The combinations monitors are created for: a special key with two
\* modifiers, a character key with one modifier, a character key alone.
Combos == {<<"s", "h", "i", "f", "t", "+", "c", "o", "m", "m", "a", "n", "d", "+", "s", "p", "a", "c", "e">>, <<"c", "o", "m", "m", "a", "n", "d", "+", "a">>, <<"b">>}

\* split_hotkey
split_hotkey(hotkey) ==
    LET parts == split(hotkey)
    IN  [modifiers |-> SubSeq(parts, 1, Len(parts) - 1), key |-> parts[Len(parts)]]

\* KeyComboHotkeyMonitor._modifier_flags: the names of the modifier flags
modifier_flags == {<<"c", "o", "m", "m", "a", "n", "d">>, <<"c", "o", "n", "t", "r", "o", "l">>, <<"o", "p", "t", "i", "o", "n">>, <<"s", "h", "i", "f", "t">>}

\* KeyComboHotkeyMonitor._special_keycodes
special_keycodes ==
    { <<<<"s", "p", "a", "c", "e">>, "kVK_Space">>, <<<<"r", "e", "t", "u", "r", "n">>, "kVK_Return">>, <<<<"e", "s", "c", "a", "p", "e">>, "kVK_Escape">>,
      <<<<"t", "a", "b">>, "kVK_Tab">>, <<<<"d", "e", "l", "e", "t", "e">>, "kVK_Delete">> }

\* KeyComboHotkeyMonitor._modifier_mask: the flags of the modifiers of the combination
modifier_mask == Range(split_hotkey(combo).modifiers) \cap modifier_flags

\* KeyComboHotkeyMonitor._expected_key_code, "None" for a character key
expected_key_code == get(special_keycodes, split_hotkey(combo).key, "None")

\* KeyComboHotkeyMonitor._expected_char, <<>> for a special key
expected_char == IF expected_key_code # "None" THEN <<>> ELSE split_hotkey(combo).key

\* The keys of the keyboard events are made with; "dead" is a key that
\* yields no character.
PhysicalKeys == {"space", "a", "b", "dead"}

\* The events NSEvent delivers: the key (for key events) and the modifier
\* flags that are set.
KeyEvents(type) == [type : {type}, key : PhysicalKeys, flags : SUBSET modifier_flags]
FlagsEvents == [type : {"flags_changed"}, key : {"none"}, flags : SUBSET modifier_flags]
CallEvent(name) == [type |-> name, key |-> "none", flags |-> {}]

\* event.keyCode()
keyCode(key_event) ==
    CASE key_event.key = "space" -> "kVK_Space"
      [] key_event.key = "a" -> "kVK_ANSI_A"
      [] key_event.key = "b" -> "kVK_ANSI_B"
      [] OTHER -> "kVK_ANSI_Grave"

\* event.charactersIgnoringModifiers(): the shift key still counts
charactersIgnoringModifiers(key_event) ==
    CASE key_event.key = "space" -> <<" ">>
      [] key_event.key = "a" -> IF <<"s", "h", "i", "f", "t">> \in key_event.flags THEN <<"A">> ELSE <<"a">>
      [] key_event.key = "b" -> IF <<"s", "h", "i", "f", "t">> \in key_event.flags THEN <<"B">> ELSE <<"b">>
      [] OTHER -> <<>>

\* KeyComboHotkeyMonitor._modifiers_active
modifiers_active(key_event) == modifier_mask \subseteq key_event.flags

\* KeyComboHotkeyMonitor._key_matches
key_matches(key_event) ==
    IF expected_key_code # "None"
    THEN keyCode(key_event) = expected_key_code
    ELSE /\ charactersIgnoringModifiers(key_event) # <<>>
         /\ lower(charactersIgnoringModifiers(key_event)) = expected_char

\* KeyComboHotkeyMonitor._matches
matches(key_event) == modifiers_active(key_event) /\ key_matches(key_event)

\* KeyComboHotkeyMonitor.__init__
KeyComboHotkeyMonitor_init ==
    /\ combo \in Combos
    /\ combo_monitoring = FALSE
    /\ combo_pressed = FALSE
    /\ combo_installed = 0
    /\ combo_event = CallEvent("init")
    /\ combo_callback = "none"
    /\ combo_last = "none"

\* No combination monitor is in use.
ComboUnused ==
    /\ combo = <<"b">>
    /\ combo_monitoring = FALSE
    /\ combo_pressed = FALSE
    /\ combo_installed = 0
    /\ combo_event = CallEvent("init")
    /\ combo_callback = "none"
    /\ combo_last = "none"

\* KeyComboHotkeyMonitor.start without the check for monitors already installed.
KeyComboHotkeyMonitor_start_unguarded ==
    /\ combo_monitoring' = TRUE
    /\ combo_installed' = combo_installed + 6
    /\ UNCHANGED combo_pressed

\* KeyComboHotkeyMonitor.start: six monitors are added (global and local, for
\* key-down, key-up and flags-changed), unless monitors are held already.
KeyComboHotkeyMonitor_start ==
    IF combo_monitoring
    THEN UNCHANGED <<combo_monitoring, combo_installed, combo_pressed>>
    ELSE /\ combo_monitoring' = TRUE
         /\ combo_installed' = combo_installed + 6
         /\ UNCHANGED combo_pressed

\* KeyComboHotkeyMonitor.stop leaving the pressed flag as it is.
KeyComboHotkeyMonitor_stop_keeps_pressed ==
    /\ combo_monitoring' = FALSE
    /\ combo_installed' = IF combo_monitoring THEN combo_installed - 6 ELSE combo_installed
    /\ UNCHANGED combo_pressed

\* KeyComboHotkeyMonitor.stop
KeyComboHotkeyMonitor_stop ==
    /\ combo_monitoring' = FALSE
    /\ combo_installed' = IF combo_monitoring THEN combo_installed - 6 ELSE combo_installed
    /\ combo_pressed' = FALSE

\* process_key_down answering every matching key-down event.
process_key_down_repeating(key_event) ==
    IF matches(key_event)
    THEN combo_pressed' = TRUE /\ combo_callback' = "press"
    ELSE UNCHANGED combo_pressed /\ combo_callback' = "none"

\* KeyComboHotkeyMonitor.start.process_key_down
process_key_down(key_event) ==
    IF matches(key_event) /\ ~combo_pressed
    THEN combo_pressed' = TRUE /\ combo_callback' = "press"
    ELSE UNCHANGED combo_pressed /\ combo_callback' = "none"

\* KeyComboHotkeyMonitor.start.process_key_up
process_key_up(key_event) ==
    IF combo_pressed /\ key_matches(key_event)
    THEN combo_pressed' = FALSE /\ combo_callback' = "release"
    ELSE UNCHANGED combo_pressed /\ combo_callback' = "none"

\* process_flags never releasing.
process_flags_ignored(key_event) ==
    UNCHANGED combo_pressed /\ combo_callback' = "none"

\* KeyComboHotkeyMonitor.start.process_flags
process_flags(key_event) ==
    IF combo_pressed /\ ~modifiers_active(key_event)
    THEN combo_pressed' = FALSE /\ combo_callback' = "release"
    ELSE UNCHANGED combo_pressed /\ combo_callback' = "none"

ComboStart ==
    /\ KeyComboHotkeyMonitor_start
    /\ combo_event' = CallEvent("start")
    /\ combo_callback' = "none"
    /\ UNCHANGED <<combo, combo_last>>

ComboStop ==
    /\ KeyComboHotkeyMonitor_stop
    /\ combo_event' = CallEvent("stop")
    /\ combo_callback' = "none"
    /\ combo_last' = "none"
    /\ UNCHANGED combo

\* The callback made last, after this event.
ComboNoted == IF combo_callback' = "none" THEN combo_last ELSE combo_callback'

KeyDown ==
    /\ combo_monitoring
    /\ \E key_event \in KeyEvents("key_down") : process_key_down(key_event) /\ combo_event' = key_event
    /\ combo_last' = ComboNoted
    /\ UNCHANGED <<combo, combo_monitoring, combo_installed>>

KeyUp ==
    /\ combo_monitoring
    /\ \E key_event \in KeyEvents("key_up") : process_key_up(key_event) /\ combo_event' = key_event
    /\ combo_last' = ComboNoted
    /\ UNCHANGED <<combo, combo_monitoring, combo_installed>>

ComboFlagsChanged ==
    /\ combo_monitoring
    /\ \E key_event \in FlagsEvents : process_flags(key_event) /\ combo_event' = key_event
    /\ combo_last' = ComboNoted
    /\ UNCHANGED <<combo, combo_monitoring, combo_installed>>

----------------------------------------------------------------------------
(* The monitor the controller holds *)

VARIABLES
    hotkey_monitor      \* IhearMenuApp._hotkey_monitor: "none", "fn" or "combo"

appVars == <<hotkey_monitor>>

\* No monitor has been created for the controller.
AppUnused == hotkey_monitor = "none"

----------------------------------------------------------------------------
(* The persisted configuration: models.Config and config.py *)

VARIABLES
    config_file,        \* CONFIG_PATH: whether it exists, and the JSON object in it
    config_call,        \* the keyword arguments of the call of update_config made last
    config_result,      \* what that call (or the call of load_config) returned or raised
    app_init,           \* what lines 557-569 of IhearMenuApp.__init__ came to
    config_saved        \* the Config given to the call of save_config made last

configVars == <<config_file, config_call, config_result, app_init, config_saved>>

\* Keyword arguments kept apart in one call of update_config.
MaxKwargs == 2

\* The fields of the dataclass Config.
ConfigFields ==
    {"backend", "whisper_model", "openai_model", "openai_api_key", "insert_destination"}

\* Config(): the default of every field.
Config_defaults ==
    [backend |-> "auto", whisper_model |-> "base",
     openai_model |-> "gpt-4o-mini-transcribe", openai_api_key |-> "None",
     insert_destination |-> "paste"]

\* The values a field is given here: its default and another one of its type.
FieldValues ==
    [backend |-> {"auto", "openai"}, whisper_model |-> {"base", "small"},
     openai_model |-> {"gpt-4o-mini-transcribe", "whisper-1"},
     openai_api_key |-> {"None", "sk-key"},
     insert_destination |-> {"paste", "clipboard"}]

\* Attributes every object has although they are no fields: hasattr is true
\* of them.  __class__ can be assigned a class of the same layout (Config
\* itself), __doc__ is read-only.
ObjectAttributes == {"__class__", "__doc__"}

\* Names that are no attribute of a Config object at all.
UnknownKeys == {"unknown", "hotkey"}

\* A dictionary is the set of its <<key, value>> pairs.
NoFile == [exists |-> FALSE, payload |-> {}]
File(payload) == [exists |-> TRUE, payload |-> payload]

ConfigReturned(config) == [ok |-> TRUE, error |-> "none", config |-> config]
ConfigRaised(error) == [ok |-> FALSE, error |-> error, config |-> Config_defaults]
ConfigNotCalled == ConfigRaised("not called")

\* load_config taking no notice of the file.
load_config_defaults(file) == ConfigReturned(Config_defaults)

\* config.load_config: Config() when the file is missing; Config(**payload)
\* otherwise, which raises TypeError for a key that is no field.
load_config(file) ==
    IF ~file.exists THEN ConfigReturned(Config_defaults)
    ELSE IF ~(Keys(file.payload) \subseteq ConfigFields) THEN ConfigRaised("TypeError")
    ELSE ConfigReturned([k \in ConfigFields |-> get(file.payload, k, Config_defaults[k])])

\* config.save_config: the fields that are not None, written as one object.
save_config(config) ==
    File({<<k, config[k]>> : k \in {f \in DOMAIN config : config[f] # "None"}})

\* hasattr(config, key)
hasattr(config, key) == key \in DOMAIN config \cup ObjectAttributes

\* setattr(config, key, value) for a key hasattr is true of.
setattr(config, key, value) ==
    IF key \in DOMAIN config THEN ConfigReturned([config EXCEPT ![key] = value])
    ELSE IF key = "__class__"
         THEN (IF value = "Config" THEN ConfigReturned(config) ELSE ConfigRaised("TypeError"))
         ELSE ConfigRaised("AttributeError")

\* The loop of update_config over kwargs.items(), from item i on.
RECURSIVE set_items(_, _, _)
set_items(config, kwargs, i) ==
    IF i > Len(kwargs) THEN ConfigReturned(config)
    ELSE IF hasattr(config, kwargs[i][1])
         THEN LET assigned == setattr(config, kwargs[i][1], kwargs[i][2])
              IN  IF assigned.ok THEN set_items(assigned.config, kwargs, i + 1)
                  ELSE assigned
         ELSE ConfigRaised("ConfigError")

\* config.update_config: the file as the call leaves it, and what the call
\* returns or raises.
update_config(file, kwargs) ==
    LET loaded == load_config(file)
    IN  IF ~loaded.ok THEN [file |-> file, result |-> loaded]
        ELSE LET updated == set_items(loaded.config, kwargs, 1)
             IN  IF updated.ok
                 THEN [file |-> save_config(updated.config), result |-> updated]
                 ELSE [file |-> file, result |-> updated]

\* The hotkey part of IhearMenuApp.__init__ (lines 557-569): what it raises,
\* or the canonical hotkey the monitor is created for, and the file it leaves.
Constructed(file, hotkey) == [ok |-> TRUE, error |-> "none", hotkey |-> hotkey, file |-> file]
ConstructRaised(file, error) == [ok |-> FALSE, error |-> error, hotkey |-> <<>>, file |-> file]
NotConstructed == [ok |-> FALSE, error |-> "not called", hotkey |-> <<>>]

\* "hotkey" is no field of Config: reading self._config.hotkey raises
\* AttributeError, which the except ValueError clause does not catch.
construct_hotkey(file) ==
    LET loaded == load_config(file)
    IN  IF ~loaded.ok THEN ConstructRaised(file, loaded.error)
        ELSE IF "hotkey" \notin DOMAIN loaded.config
        THEN ConstructRaised(file, "AttributeError")
        ELSE LET normalized == normalize_hotkey(loaded.config["hotkey"])
                 canonical_hotkey == IF normalized.ok THEN normalized.value ELSE fn
             IN  IF ~normalized.ok \/ canonical_hotkey # loaded.config["hotkey"]
                 THEN LET updated == update_config(file, <<<<"hotkey", canonical_hotkey>>>>)
                      IN  IF updated.result.ok
                          THEN Constructed(updated.file, canonical_hotkey)
                          ELSE ConstructRaised(updated.file, updated.result.error)
                 ELSE Constructed(file, canonical_hotkey)

\* Whether save_config has been called, and with which Config.
NothingSaved == [saved |-> FALSE, config |-> Config_defaults]
Saved(config) == [saved |-> TRUE, config |-> config]

\* The configuration of a program that has not touched it.
ConfigUnused ==
    /\ config_file = NoFile
    /\ config_call = <<>>
    /\ config_result = ConfigNotCalled
    /\ app_init = NotConstructed
    /\ config_saved = NothingSaved

\* The files the program writes: save_config of some Config.
Configs == {c \in [ConfigFields -> UNION {FieldValues[k] : k \in ConfigFields}] :
               \A k \in ConfigFields : c[k] \in FieldValues[k]}
WrittenFiles == {NoFile} \cup {save_config(c) : c \in Configs}

\* The <<key, value>> items a call of update_config is given here.
KwargsItems ==
    UNION {{<<k, v>> : v \in FieldValues[k]} :
              k \in {"backend", "whisper_model", "openai_api_key"}}
        \cup {<<"unknown", "value">>, <<"hotkey", "fn">>,
              <<"__class__", "Config">>, <<"__class__", "str">>, <<"__doc__", "text">>}

\* Keyword arguments: items in their order, no key twice.
KwargsInputs ==
    {kwargs \in UNION {[1..n -> KwargsItems] : n \in 0..MaxKwargs} :
        \A i, j \in 1..Len(kwargs) : i # j => kwargs[i][1] # kwargs[j][1]}

\* A call of update_config.
UpdateConfig ==
    /\ \E kwargs \in KwargsInputs :
          /\ config_call' = kwargs
          /\ config_file' = update_config(config_file, kwargs).file
          /\ config_result' = update_config(config_file, kwargs).result
    /\ UNCHANGED <<app_init, config_saved>>

\* The stored hotkeys tried: canonical ones, valid ones that are not
\* canonical, and ones normalize_hotkey rejects.
StoredHotkeys ==
    {fn,
     <<"c", "o", "m", "m", "a", "n", "d", "+", "s", "p", "a", "c", "e">>,
     <<"F", "n">>,
     <<"c", "m", "d", "+", "s", "p", "a", "c", "e">>,
     <<"S", "p", "a", "c", "e">>,
     <<"o", "p", "t", "i", "o", "n", "+", "c", "t", "r", "l", "+", "a">>,
     <<"c", "o", "n", "t", "r", "o", "l", "+", "o", "p", "t", "i", "o", "n", "+", "a">>,
     <<"s", "h", "i", "f", "t", "+">>,
     <<"f", "n", "+", "a">>,
     <<>>}

\* A file that holds a hotkey besides what the program writes.
HotkeyFiles ==
    {File(f.payload \cup {<<"hotkey", h>>}) : f \in WrittenFiles, h \in StoredHotkeys}

\* IhearMenuApp() up to line 569.
Construct ==
    /\ ~app_init.ok /\ app_init.error = "not called"
    /\ app_init' = [ok |-> construct_hotkey(config_file).ok,
                    error |-> construct_hotkey(config_file).error,
                    hotkey |-> construct_hotkey(config_file).hotkey]
    /\ config_file' = construct_hotkey(config_file).file
    /\ UNCHANGED <<config_call, config_result, config_saved>>

\* A call of save_config with some Config; what was loaded before is out of date.
SaveConfig ==
    /\ \E config \in Configs :
          /\ config_file' = save_config(config)
          /\ config_saved' = Saved(config)
    /\ config_result' = ConfigNotCalled
    /\ UNCHANGED <<config_call, app_init>>

\* A call of load_config.
LoadConfig ==
    /\ config_result' = load_config(config_file)
    /\ UNCHANGED <<config_file, config_call, app_init, config_saved>>

----------------------------------------------------------------------------
(* Storage: the transcripts table of the SQLite database *)

VARIABLES
    rows,               \* the table transcripts: the row of each id, if any
    sqlite_sequence,    \* the largest id the table has ever held (AUTOINCREMENT)
    store_clock,        \* datetime.utcnow() as the call made last read it
    store_call,         \* the call made last: the method and the id it was about
    given,              \* per id, the fields given to add_transcript and update_summary
    handed              \* the ids add_transcript has returned

storeVars == <<rows, sqlite_sequence, store_clock, store_call, given, handed>>

\* Ids kept apart, and the readings of the clock kept apart.
MaxIds == 2
MaxStoreClock == 1

Ids == 1..MaxIds

\* Optional values: None in Python is "None" here, NULL in SQLite "NULL";
\* an optional dictionary is <<>> for None and <<d>> for the dictionary d.
NoRow ==
    [present |-> FALSE, title |-> "", audio_path |-> "NULL", transcript |-> "",
     summary |-> "NULL", created_at |-> 0, updated_at |-> 0, metadata |-> "{}"]

\* json.dumps and json.loads of the dictionaries used here.
json_dumps(dict) == IF dict = {} THEN "{}" ELSE "{\"source\": \"mic\"}"
json_loads(text) == IF text = "{}" THEN {} ELSE {<<"source", "mic">>}

\* str(audio_path) if audio_path else None; a Path is never false.
audio_path_to_text(audio_path) == IF audio_path = "None" THEN "NULL" ELSE audio_path
\* Path(row["audio_path"]) if row["audio_path"] else None
audio_path_from_text(text) == IF text = "NULL" \/ text = "" THEN "None" ELSE text
\* A column that takes None as NULL.
to_column(value) == IF value = "None" THEN "NULL" ELSE value
from_column(text) == IF text = "NULL" THEN "None" ELSE text

\* storage._row_to_record
row_to_record(id, row) ==
    [id |-> id, title |-> row.title,
     audio_path |-> audio_path_from_text(row.audio_path),
     transcript |-> row.transcript, summary |-> from_column(row.summary),
     created_at |-> row.created_at, updated_at |-> row.updated_at,
     metadata |-> json_loads(row.metadata)]

StoreReturned(record) == [ok |-> TRUE, error |-> "none", record |-> record]
StoreRaised(error) == [ok |-> FALSE, error |-> error, record |-> row_to_record(0, NoRow)]

\* Storage.get_transcript on a table
get_transcript(table, transcript_id) ==
    IF transcript_id \in DOMAIN table /\ table[transcript_id].present
    THEN StoreReturned(row_to_record(transcript_id, table[transcript_id]))
    ELSE StoreRaised("StorageError")

\* The id of a new row of a table without AUTOINCREMENT: one more than the
\* largest id in the table.
next_rowid_reusing ==
    LET present == {id \in Ids : rows[id].present}
    IN  IF present = {} THEN 1 ELSE (CHOOSE id \in present : \A other \in present : other <= id) + 1

\* The id of a new row, id being INTEGER PRIMARY KEY AUTOINCREMENT: one more
\* than the largest id the table has ever held.
next_rowid == sqlite_sequence + 1

\* datetime.utcnow(): the reading before, or a later one.
Readings == {t \in {store_clock, store_clock + 1} : t <= MaxStoreClock}

\* The arguments add_transcript is called with here.
AddInputs ==
    {[title |-> "Meeting", transcript |-> "Discussed roadmap", audio_path |-> "meeting.wav",
      summary |-> "None", metadata |-> <<>>],
     [title |-> "Note", transcript |-> "Content", audio_path |-> "None",
      summary |-> "", metadata |-> <<{<<"source", "mic">>}>>]}

\* What the map holds for the arguments of add_transcript: no dictionary
\* given is the empty dictionary.
Given(args) ==
    [present |-> TRUE, title |-> args.title, transcript |-> args.transcript,
     audio_path |-> args.audio_path, summary |-> args.summary,
     metadata |-> IF args.metadata = <<>> THEN {} ELSE args.metadata[1]]
NotGiven ==
    [present |-> FALSE, title |-> "", transcript |-> "", audio_path |-> "None",
     summary |-> "None", metadata |-> {}]

\* Storage.add_transcript
add_transcript(args) ==
    /\ next_rowid \in Ids
    /\ \E current \in Readings :
          /\ store_clock' = current
          /\ rows' = [rows EXCEPT ![next_rowid] =
                        [present |-> TRUE, title |-> args.title,
                         audio_path |-> audio_path_to_text(args.audio_path),
                         transcript |-> args.transcript,
                         summary |-> to_column(args.summary),
                         created_at |-> current, updated_at |-> current,
                         metadata |-> json_dumps(IF args.metadata = <<>> THEN {}
                                                 ELSE args.metadata[1])]]
    /\ sqlite_sequence' = next_rowid
    /\ store_call' = [op |-> "add_transcript", id |-> next_rowid]
    /\ given' = [given EXCEPT ![next_rowid] = Given(args)]
    /\ handed' = handed \cup {next_rowid}

\* Storage.update_summary: the UPDATE of the row, if there is one
update_summary(transcript_id, summary) ==
    /\ \E current \in Readings :
          /\ store_clock' = current
          /\ rows' = IF rows[transcript_id].present
                     THEN [rows EXCEPT ![transcript_id].summary = summary,
                                       ![transcript_id].updated_at = current]
                     ELSE rows
    /\ store_call' = [op |-> "update_summary", id |-> transcript_id]
    /\ given' = IF given[transcript_id].present
                THEN [given EXCEPT ![transcript_id].summary = summary]
                ELSE given
    /\ UNCHANGED <<sqlite_sequence, handed>>

\* Storage.delete_transcript
delete_transcript(transcript_id) ==
    /\ rows' = [rows EXCEPT ![transcript_id] = NoRow]
    /\ store_call' = [op |-> "delete_transcript", id |-> transcript_id]
    /\ given' = [given EXCEPT ![transcript_id] = NotGiven]
    /\ UNCHANGED <<sqlite_sequence, store_clock, handed>>

\* Storage(db_path) on a path with no database: the empty table.
Storage_init ==
    /\ rows = [id \in Ids |-> NoRow]
    /\ sqlite_sequence = 0
    /\ store_clock = 0
    /\ store_call = [op |-> "init", id |-> 0]
    /\ given = [id \in Ids |-> NotGiven]
    /\ handed = {}

AddTranscript == \E args \in AddInputs : add_transcript(args)
UpdateSummary ==
    \E transcript_id \in Ids, summary \in {"Plans summary", ""} :
        update_summary(transcript_id, summary)
DeleteTranscript == \E transcript_id \in Ids : delete_transcript(transcript_id)

----------------------------------------------------------------------------
(* Summarizer *)

VARIABLES
    transcript,         \* the argument of Summarizer.summarise
    max_sentences,      \* Summarizer.max_sentences
    scores,             \* what _score_sentences returned, if it was called
    summary             \* what summarise returned, and the sentences it chose

summaryVars == <<transcript, max_sentences, scores, summary>>

\* The length of the transcripts, the values of max_sentences and the values
\* of the scores kept apart.
MaxText == 7
MaxSentences == 2
MaxScore == 2

\* The characters [.!?] of the pattern _split_sentences splits after.
Terminators == {".", "!", "?"}

\* re.split(r"(?<=[.!?])\s+", text) from character i on, piece being the
\* characters of the piece at hand: white space that follows one of the
\* three characters ends the piece, and the whole run of it is left out.
RECURSIVE re_split(_, _, _)
re_split(text, i, piece) ==
    IF i > Len(text) THEN <<piece>>
    ELSE IF text[i] \in Whitespace /\ i > 1 /\ text[i - 1] \in Terminators
         THEN <<piece>> \o re_split(lstrip(SubSeq(text, i, Len(text))), 1, <<>>)
         ELSE re_split(text, i + 1, Append(piece, text[i]))

\* [s.strip() for s in sentences if s.strip()]
RECURSIVE stripped_nonempty(_)
stripped_nonempty(pieces) ==
    IF pieces = <<>> THEN <<>>
    ELSE IF strip(Head(pieces)) = <<>> THEN stripped_nonempty(Tail(pieces))
    ELSE <<strip(Head(pieces))>> \o stripped_nonempty(Tail(pieces))

\* summarizer._split_sentences
split_sentences(text) ==
    IF strip(text) = <<>> THEN <<>>
    ELSE stripped_nonempty(re_split(strip(text), 1, <<>>))

\* " ".join
RECURSIVE join_spaced(_)
join_spaced(parts) ==
    IF parts = <<>> THEN <<>>
    ELSE IF Len(parts) = 1 THEN parts[1]
    ELSE parts[1] \o <<" ">> \o join_spaced(Tail(parts))

\* sorted(range(len(sentences)), key=lambda i: scores[i], reverse=True):
\* the indices by falling score; sorted is stable, so of two sentences with
\* the same score the earlier one comes first.
RECURSIVE ranked(_, _)
ranked(sentence_scores, left) ==
    IF left = {} THEN <<>>
    ELSE LET first == CHOOSE i \in left :
                         \A j \in left : \/ sentence_scores[i] > sentence_scores[j]
                                         \/ sentence_scores[i] = sentence_scores[j] /\ i <= j
         IN  <<first>> \o ranked(sentence_scores, left \ {first})

\* sorted(indices): rising
RECURSIVE sorted(_)
sorted(indices) ==
    IF indices = {} THEN <<>>
    ELSE LET least == CHOOSE i \in indices : \A j \in indices : i <= j
         IN  <<least>> \o sorted(indices \ {least})

\* top_indices left in the order of the ranking.
top_indices_by_rank(sentence_scores, count) ==
    SubSeq(ranked(sentence_scores, DOMAIN sentence_scores), 1, count)

\* top_indices = sorted(ranked[: self.max_sentences])
top_indices(sentence_scores, count) ==
    sorted(Range(SubSeq(ranked(sentence_scores, DOMAIN sentence_scores), 1, count)))

Summarised(text, indices) == [done |-> TRUE, text |-> text, indices |-> indices]
NotSummarised == [done |-> FALSE, text |-> <<>>, indices |-> <<>>]

\* Summarizer.summarise.  _score_sentences returns one finite number for
\* each sentence (a sum of products of positive term frequencies and inverse
\* document frequencies); summarise reads these numbers by comparing them
\* only, so they are left open here: any number of a few for each sentence.
summarise ==
    LET sentences == split_sentences(transcript)
    IN  IF sentences = <<>>
        THEN summary' = Summarised(<<>>, <<>>) /\ scores' = <<>>
        ELSE IF Len(sentences) <= max_sentences
        THEN /\ summary' = Summarised(join_spaced(sentences),
                                      [i \in 1..Len(sentences) |-> i])
             /\ scores' = <<>>
        ELSE \E sentence_scores \in [1..Len(sentences) -> 1..MaxScore] :
                /\ scores' = sentence_scores
                /\ summary' =
                     LET chosen == top_indices(sentence_scores, max_sentences)
                     IN  Summarised(
                             join_spaced([k \in 1..Len(chosen) |-> sentences[chosen[k]]]),
                             chosen)

\* One call of summarise on a Summarizer.
Summarise ==
    /\ ~summary.done
    /\ summarise
    /\ UNCHANGED <<transcript, max_sentences>>

\* Summarizer() before any call: max_sentences is 3 by default.
SummaryUnused ==
    /\ transcript = <<>>
    /\ max_sentences = 3
    /\ scores = <<>>
    /\ summary = NotSummarised

\* The transcripts summarised: any text of letters, full stops and spaces.
Transcripts == UNION {[1..n -> {"a", ".", " "}] : n \in 0..MaxText}

\* Summarizer(max_sentences) and the transcript it is to be called with.
Summarizer_init ==
    /\ transcript \in Transcripts
    /\ max_sentences \in 0..MaxSentences
    /\ scores = <<>>
    /\ summary = NotSummarised

----------------------------------------------------------------------------
(* The API service: _initialise_backend *)

VARIABLES
    api_backend,        \* api._backend: 0 is None, n the n-th WhisperBackend built
    backend_lock,       \* api._backend_lock: 0 is free, t held by thread t
    caller,             \* per thread: its position in _initialise_backend, its
                        \* local variable backend, and how its last call ended
    constructed,        \* WhisperBackend objects whose __init__ has returned
    calls               \* calls of _initialise_backend made so far

backendVars == <<api_backend, backend_lock, caller, constructed, calls>>

\* The threads of the thread pool that run _initialise_backend, and the
\* calls they make between them.
MaxCallers == 2
MaxCalls == 3

Callers == 1..MaxCallers

\* A thread outside _initialise_backend that has not called it yet.
NotCalling ==
    [pc |-> "outside", backend |-> 0, locked |-> FALSE, outcome |-> "none", value |-> 0]

\* WhisperBackend(DEFAULT_MODEL) returns, or raises (the package is missing
\* or the model cannot be loaded).
LoadOutcomes == {"ok", "raise"}

\* run_in_threadpool(_initialise_backend): thread t enters the function.
CallInitialise(t) ==
    /\ caller[t].pc = "outside"
    /\ calls < MaxCalls
    /\ calls' = calls + 1
    /\ caller' = [caller EXCEPT ![t] = [NotCalling EXCEPT !.pc = "check"]]
    /\ UNCHANGED <<api_backend, backend_lock, constructed>>

\* if _backend is not None: return _backend
FirstCheck(t) ==
    /\ caller[t].pc = "check"
    /\ caller' = [caller EXCEPT ![t] =
                    IF api_backend # 0
                    THEN [@ EXCEPT !.pc = "outside", !.outcome = "returned",
                                   !.value = api_backend]
                    ELSE [@ EXCEPT !.pc = "acquire"]]
    /\ UNCHANGED <<api_backend, backend_lock, constructed, calls>>

\* Entering the with block without waiting for the lock.
Acquire_without_waiting(t) ==
    /\ caller[t].pc = "acquire"
    /\ backend_lock' = t
    /\ caller' = [caller EXCEPT ![t] = [@ EXCEPT !.pc = "locked", !.locked = TRUE]]
    /\ UNCHANGED <<api_backend, constructed, calls>>

\* with _backend_lock: the thread goes on once the lock is free.
Acquire(t) ==
    /\ caller[t].pc = "acquire"
    /\ backend_lock = 0
    /\ backend_lock' = t
    /\ caller' = [caller EXCEPT ![t] = [@ EXCEPT !.pc = "locked", !.locked = TRUE]]
    /\ UNCHANGED <<api_backend, constructed, calls>>

\* if _backend is None, under the lock
SecondCheck(t) ==
    /\ caller[t].pc = "locked"
    /\ caller' = [caller EXCEPT ![t] =
                    [@ EXCEPT !.pc = IF api_backend = 0 THEN "construct" ELSE "release"]]
    /\ UNCHANGED <<api_backend, backend_lock, constructed, calls>>

\* backend = WhisperBackend(DEFAULT_MODEL); when it raises, the with block
\* releases the lock and the exception leaves _initialise_backend.
ConstructBackend(t) ==
    /\ caller[t].pc = "construct"
    /\ \E outcome \in LoadOutcomes :
          IF outcome = "ok"
          THEN /\ constructed' = constructed + 1
               /\ caller' = [caller EXCEPT ![t] =
                               [@ EXCEPT !.pc = "assign", !.backend = constructed + 1]]
               /\ UNCHANGED backend_lock
          ELSE /\ backend_lock' = 0
               /\ caller' = [caller EXCEPT ![t] =
                               [@ EXCEPT !.pc = "outside", !.outcome = "raised"]]
               /\ UNCHANGED constructed
    /\ UNCHANGED <<api_backend, calls>>

\* _backend = backend
AssignBackend(t) ==
    /\ caller[t].pc = "assign"
    /\ api_backend' = caller[t].backend
    /\ caller' = [caller EXCEPT ![t] = [@ EXCEPT !.pc = "release"]]
    /\ UNCHANGED <<backend_lock, constructed, calls>>

\* The end of the with block: the lock is released.
ReleaseLock(t) ==
    /\ caller[t].pc = "release"
    /\ backend_lock' = 0
    /\ caller' = [caller EXCEPT ![t] = [@ EXCEPT !.pc = "return"]]
    /\ UNCHANGED <<api_backend, constructed, calls>>

\* return _backend, read after the lock has been released
ReturnBackend(t) ==
    /\ caller[t].pc = "return"
    /\ caller' = [caller EXCEPT ![t] =
                    [@ EXCEPT !.pc = "outside", !.outcome = "returned",
                              !.value = api_backend]]
    /\ UNCHANGED <<api_backend, backend_lock, constructed, calls>>

\* The module api after its import: no backend, the lock free, no call made.
Api_init ==
    /\ api_backend = 0
    /\ backend_lock = 0
    /\ caller = [t \in Callers |-> NotCalling]
    /\ constructed = 0
    /\ calls = 0

\* The variables of the library functions and of the service, and their
\* state in a program that does not call them.
libraryVars == <<storeVars, summaryVars, backendVars>>
LibraryUnused == Storage_init /\ SummaryUnused /\ Api_init

----------------------------------------------------------------------------
\* Everything outside the controller.
outsideController ==
    <<hotkeyVars, fnVars, comboVars, appVars, configVars, libraryVars>>

----------------------------------------------------------------------------
(* The events *)

Press ==
    /\ mainPc = "idle"
    /\ \E outcome \in StartOutcomes : on_hotkey_press(outcome)
    /\ event' = Ev("press", 0, {})
    /\ UNCHANGED <<mainPc, insert_destination, outsideController>>

Release ==
    /\ mainPc = "idle"
    /\ on_hotkey_release
    /\ event' = Ev("release", 0, {})
    /\ UNCHANGED <<mainPc, insert_destination, outsideController>>

DoubleTap ==
    /\ mainPc = "idle"
    /\ on_double_tap
    /\ UNCHANGED <<insert_destination, outsideController>>

DoubleTapTail == on_double_tap_tail /\ UNCHANGED outsideController

AudioBlock ==
    /\ AudioRecorder_callback
    /\ event' = Ev("audio", 0, {})
    /\ UNCHANGED <<flagVars, status, indicator, job, mainPc, insert_destination, outsideController>>

WorkerTry ==
    /\ \E s \in Slots, result \in BackendOutcomes, clip \in ClipboardOutcomes,
          paste \in PasteOutcomes : process_audio_try(s, result, clip, paste)
    /\ UNCHANGED outsideController

WorkerClear == (\E s \in Slots : process_audio_clear(s)) /\ UNCHANGED outsideController

WorkerUnlink == (\E s \in Slots : process_audio_unlink(s)) /\ UNCHANGED outsideController

vars ==
    <<controllerVars, hotkeyVars, fnVars, comboVars, appVars, configVars, libraryVars>>

\* IhearMenuApp.__init__ (the controller's fields) after a monitor was created.
ControllerInit ==
    /\ recording = FALSE
    /\ continuous_mode = FALSE
    /\ processing = FALSE
    /\ status = "ready"
    /\ indicator = FALSE
    /\ stream = "none"
    /\ frames = 0
    /\ openStreams = 0
    /\ job = [s \in Slots |-> FreeJob]
    /\ mainPc = "idle"
    /\ event = Ev("init", 0, {})
    /\ insert_destination \in {"paste", "clipboard"}

Init == ControllerInit /\ HotkeyUnused /\ FnUnused /\ ComboUnused /\ AppUnused /\ ConfigUnused
    /\ LibraryUnused

Next ==
    \/ Press
    \/ Release
    \/ DoubleTap
    \/ DoubleTapTail
    \/ AudioBlock
    \/ WorkerTry
    \/ WorkerClear
    \/ WorkerUnlink

Spec == Init /\ [][Next]_vars

outsideHotkey ==
    <<controllerVars, fnVars, comboVars, appVars, configVars, libraryVars>>
outsideFn ==
    <<controllerVars, hotkeyVars, comboVars, appVars, configVars, libraryVars>>
outsideCombo ==
    <<controllerVars, hotkeyVars, fnVars, appVars, configVars, libraryVars>>
outsideConfig ==
    <<controllerVars, hotkeyVars, fnVars, comboVars, appVars, libraryVars>>

\* The hotkey functions applied to typed strings, the controller at rest.
InitHotkey ==
    ControllerInit /\ HotkeyTyped /\ FnUnused /\ ComboUnused /\ AppUnused /\ ConfigUnused
    /\ LibraryUnused

NextHotkey ==
    \/ Normalize /\ UNCHANGED outsideHotkey
    \/ Format /\ UNCHANGED outsideHotkey
    \/ Reparse /\ UNCHANGED outsideHotkey
    \/ Renormalize /\ UNCHANGED outsideHotkey

SpecHotkey == InitHotkey /\ [][NextHotkey]_vars

\* The single-key monitor receiving flags-changed events, the controller at rest.
InitFn ==
    ControllerInit /\ HotkeyUnused /\ FnHotkeyMonitor_init /\ ComboUnused /\ AppUnused /\ ConfigUnused
    /\ LibraryUnused

FlagsChanged ==
    /\ \E is_pressed \in BOOLEAN : handle(is_pressed)
    /\ history' = Noted(callback')

FnStart == FnHotkeyMonitor_start /\ UNCHANGED history

FnStop == FnHotkeyMonitor_stop /\ history' = <<>>

NextFn ==
    \/ FnStart /\ UNCHANGED outsideFn
    \/ FnStop /\ UNCHANGED outsideFn
    \/ FlagsChanged /\ UNCHANGED outsideFn
    \/ Tick /\ UNCHANGED outsideFn

SpecFn == InitFn /\ [][NextFn]_vars

\* The combination monitor receiving keyboard events, the controller at rest.
InitCombo ==
    ControllerInit /\ HotkeyUnused /\ FnUnused /\ KeyComboHotkeyMonitor_init /\ AppUnused /\ ConfigUnused
    /\ LibraryUnused

NextCombo ==
    \/ ComboStart /\ UNCHANGED outsideCombo
    \/ ComboStop /\ UNCHANGED outsideCombo
    \/ KeyDown /\ UNCHANGED outsideCombo
    \/ KeyUp /\ UNCHANGED outsideCombo
    \/ ComboFlagsChanged /\ UNCHANGED outsideCombo

SpecCombo == InitCombo /\ [][NextCombo]_vars

\* A monitor as _create_hotkey_monitor makes it, of the one kind or the
\* other, with start, stop and events in any order; the controller at rest.
InitMonitors ==
    /\ ControllerInit
    /\ HotkeyUnused
    /\ ConfigUnused
    /\ LibraryUnused
    /\ \/ hotkey_monitor = "fn" /\ FnHotkeyMonitor_init /\ on_double_tap_given /\ ComboUnused
       \/ hotkey_monitor = "combo" /\ KeyComboHotkeyMonitor_init /\ FnUnused

NextMonitors ==
    \/ hotkey_monitor = "fn" /\ FnStart /\ UNCHANGED outsideFn
    \/ hotkey_monitor = "fn" /\ FnStop /\ UNCHANGED outsideFn
    \/ hotkey_monitor = "fn" /\ FlagsChanged /\ UNCHANGED outsideFn
    \/ hotkey_monitor = "fn" /\ Tick /\ UNCHANGED outsideFn
    \/ hotkey_monitor = "combo" /\ ComboStart /\ UNCHANGED outsideCombo
    \/ hotkey_monitor = "combo" /\ ComboStop /\ UNCHANGED outsideCombo
    \/ hotkey_monitor = "combo" /\ KeyDown /\ UNCHANGED outsideCombo
    \/ hotkey_monitor = "combo" /\ KeyUp /\ UNCHANGED outsideCombo
    \/ hotkey_monitor = "combo" /\ ComboFlagsChanged /\ UNCHANGED outsideCombo

SpecMonitors == InitMonitors /\ [][NextMonitors]_vars

\* What becomes of _create_hotkey_monitor: the monitor object, or the
\* RuntimeError of a constructor that cannot import the event framework.
CreateOutcomes == {"ok", "fail"}

\* _reload_hotkey_monitor leaving the ready prompt in place on a failure.
reload_hotkey_monitor_silent(outcome) ==
    /\ installed' = (IF hotkey_monitor = "fn" /\ monitoring THEN installed - 2 ELSE installed)
                    + (IF outcome = "ok" THEN 2 ELSE 0)
    /\ pressed' = FALSE
    /\ last_press_time' = 0
    /\ callback' = "none"
    /\ elapsed' = 0
    /\ history' = <<>>
    /\ on_double_tap_given' = TRUE
    /\ monitoring' = (outcome = "ok")
    /\ hotkey_monitor' = IF outcome = "ok" THEN "fn" ELSE "none"
    /\ status' = "ready"
    /\ UNCHANGED now

\* IhearMenuApp._reload_hotkey_monitor with the hotkey "fn": the monitor held
\* is stopped; then either a FnHotkeyMonitor is created with the three
\* handlers of the controller and started, and the ready prompt is shown, or
\* the creation raises, no monitor is held and the hotkey error is shown.
reload_hotkey_monitor(outcome) ==
    /\ installed' = (IF hotkey_monitor = "fn" /\ monitoring THEN installed - 2 ELSE installed)
                    + (IF outcome = "ok" THEN 2 ELSE 0)
    /\ pressed' = FALSE
    /\ last_press_time' = 0
    /\ callback' = "none"
    /\ elapsed' = 0
    /\ history' = <<>>
    /\ on_double_tap_given' = TRUE
    /\ monitoring' = (outcome = "ok")
    /\ hotkey_monitor' = IF outcome = "ok" THEN "fn" ELSE "none"
    /\ status' = IF outcome = "ok" THEN "ready" ELSE "hotkey_error"
    /\ UNCHANGED now

\* The last statement of IhearMenuApp.__init__, the only call of
\* _reload_hotkey_monitor.
Reload ==
    /\ event.name = "init"
    /\ \E outcome \in CreateOutcomes : reload_hotkey_monitor(outcome)
    /\ event' = Ev("reload", 0, {})
    /\ UNCHANGED <<flagVars, indicator, recorderVars, job, mainPc, insert_destination,
                   hotkeyVars, comboVars, configVars, libraryVars>>

\* A flags-changed event taken by the monitor the controller started: handle
\* calls the handler of the controller it was given, on the main thread.
AppFlagsChanged ==
    /\ hotkey_monitor = "fn"
    /\ mainPc = "idle"
    /\ \E is_pressed \in BOOLEAN : handle(is_pressed)
    /\ UNCHANGED history
    /\ CASE callback' = "press" ->
                /\ \E outcome \in StartOutcomes : on_hotkey_press(outcome)
                /\ event' = Ev("press", 0, {})
                /\ UNCHANGED <<mainPc, insert_destination>>
         [] callback' = "release" ->
                /\ on_hotkey_release
                /\ event' = Ev("release", 0, {})
                /\ UNCHANGED <<mainPc, insert_destination>>
         [] callback' = "double_tap" ->
                /\ on_double_tap
                /\ UNCHANGED insert_destination
         [] OTHER ->
                /\ event' = Ev("none", 0, {})
                /\ UNCHANGED <<flagVars, status, indicator, recorderVars, job, mainPc,
                               insert_destination>>
    /\ UNCHANGED <<hotkeyVars, comboVars, appVars, configVars, libraryVars>>

\* time.time() moves on.  Once the window after the press recorded last is
\* over, handle tells no later time from that one.
AppTick == now - last_press_time < double_tap_window /\ Tick /\ UNCHANGED outsideFn

\* The audio thread delivers a block.  AudioRecorder.stop looks only at
\* whether any block was captured, so the blocks after the first are left out.
AppAudioBlock == frames = 0 /\ AudioBlock

\* The controller at the end of __init__, the hotkey being "fn" and the
\* configuration the default one: no monitor yet, the clock at a time of day
\* a window before the end of the time observed.
InitApp ==
    /\ ControllerInit
    /\ insert_destination = "paste"
    /\ HotkeyUnused
    /\ ComboUnused
    /\ AppUnused
    /\ ConfigUnused
    /\ LibraryUnused
    /\ monitoring = FALSE
    /\ pressed = FALSE
    /\ last_press_time = 0
    /\ on_double_tap_given = TRUE
    /\ now = MaxClock - double_tap_window
    /\ callback = "none"
    /\ elapsed = 0
    /\ installed = 0
    /\ history = <<>>

NextApp ==
    \/ Reload
    \/ AppFlagsChanged
    \/ AppTick
    \/ DoubleTapTail
    \/ AppAudioBlock
    \/ WorkerTry
    \/ WorkerClear
    \/ WorkerUnlink

SpecApp == InitApp /\ [][NextApp]_vars

\* Calls of update_config, one after the other, on a configuration the
\* program has written (or none); everything else at rest.
InitConfig ==
    /\ ControllerInit /\ HotkeyUnused /\ FnUnused /\ ComboUnused /\ AppUnused
    /\ config_file \in WrittenFiles
    /\ config_call = <<>>
    /\ config_result = ConfigNotCalled
    /\ app_init = NotConstructed
    /\ config_saved = NothingSaved
    /\ LibraryUnused

NextConfig == UpdateConfig /\ UNCHANGED outsideConfig

SpecConfig == InitConfig /\ [][NextConfig]_vars

\* The controller constructed on a configuration file as the program writes
\* it, or on one that holds a hotkey as well.
InitConstruct ==
    /\ ControllerInit /\ HotkeyUnused /\ FnUnused /\ ComboUnused /\ AppUnused
    /\ config_file \in WrittenFiles \cup HotkeyFiles
    /\ config_call = <<>>
    /\ config_result = ConfigNotCalled
    /\ app_init = NotConstructed
    /\ config_saved = NothingSaved
    /\ LibraryUnused

NextConstruct == Construct /\ UNCHANGED outsideConfig

SpecConstruct == InitConstruct /\ [][NextConstruct]_vars

\* Calls of save_config and load_config in any order, starting with no file.
InitStore ==
    /\ ControllerInit /\ HotkeyUnused /\ FnUnused /\ ComboUnused /\ AppUnused
    /\ ConfigUnused
    /\ LibraryUnused

NextStore ==
    \/ SaveConfig /\ UNCHANGED outsideConfig
    \/ LoadConfig /\ UNCHANGED outsideConfig

SpecStore == InitStore /\ [][NextStore]_vars

\* Calls of the methods of a Storage on a new database, in any order.
outsideStorage ==
    <<controllerVars, hotkeyVars, fnVars, comboVars, appVars, configVars, summaryVars,
      backendVars>>

InitStorage ==
    /\ ControllerInit /\ HotkeyUnused /\ FnUnused /\ ComboUnused /\ AppUnused
    /\ ConfigUnused
    /\ Storage_init
    /\ SummaryUnused
    /\ Api_init

NextStorage ==
    \/ AddTranscript /\ UNCHANGED outsideStorage
    \/ UpdateSummary /\ UNCHANGED outsideStorage
    \/ DeleteTranscript /\ UNCHANGED outsideStorage

SpecStorage == InitStorage /\ [][NextStorage]_vars

\* Summarizer.summarise called on a transcript.
outsideSummary ==
    <<controllerVars, hotkeyVars, fnVars, comboVars, appVars, configVars, storeVars,
      backendVars>>

InitSummary ==
    /\ ControllerInit /\ HotkeyUnused /\ FnUnused /\ ComboUnused /\ AppUnused
    /\ ConfigUnused
    /\ Storage_init
    /\ Summarizer_init
    /\ Api_init

NextSummary == Summarise /\ UNCHANGED outsideSummary

SpecSummary == InitSummary /\ [][NextSummary]_vars

\* The threads of the service calling _initialise_backend.
outsideBackend ==
    <<controllerVars, hotkeyVars, fnVars, comboVars, appVars, configVars, storeVars,
      summaryVars>>

InitBackend ==
    /\ ControllerInit /\ HotkeyUnused /\ FnUnused /\ ComboUnused /\ AppUnused
    /\ ConfigUnused
    /\ Storage_init
    /\ SummaryUnused
    /\ Api_init

NextBackend ==
    /\ \E t \in Callers :
          \/ CallInitialise(t)
          \/ FirstCheck(t)
          \/ Acquire(t)
          \/ SecondCheck(t)
          \/ ConstructBackend(t)
          \/ AssignBackend(t)
          \/ ReleaseLock(t)
          \/ ReturnBackend(t)
    /\ UNCHANGED outsideBackend

SpecBackend == InitBackend /\ [][NextBackend]_vars

----------------------------------------------------------------------------
(* Vocabulary of the properties *)

\* The events a hotkey monitor delivers.
HotkeyEvents == {"press", "release", "double_tap"}

\* The states of the controller (spec 4.3).
Idle == ~recording /\ ~processing
Processing == processing

\* PendingJobs: the dispatched jobs whose completion has not been signalled
\* (the worker has not yet run "self._processing = False").
PendingJobs == {s \in Slots : job[s].pc \in {"transcribe", "finally"}}

\* The step dispatches a job: a worker thread is started.
Dispatches == \E s \in Slots : job[s].pc \in {"free", "done"} /\ job'[s].pc = "transcribe"

\* Notifications that report a failure to the user.
FailureNotes == {"Transcription failed", "Recording failed"}

----------------------------------------------------------------------------
\* C1: under every interleaving of press, release, double-tap and worker
\* steps there is at most one open capture stream (RecordingSession) and at
\* most one dispatched job whose completion has not been signalled (PendingJob).
C1_SingleSessionSingleJob ==
    /\ openStreams <= 1
    /\ Cardinality(PendingJobs) <= 1

\* C1 witness: a press was handled while a job was pending, and a further
\* worker of an earlier job is still alive.
C1_Witness ==
    /\ event.name = "press"
    /\ Cardinality(PendingJobs) = 1
    /\ \E s \in Slots : job[s].pc = "unlink"

\* C2: a press, release or double-tap handled while the processing flag is set
\* changes nothing of the controller: flags, recorder, jobs, status, indicator.
C2_ProcessingIgnoresHotkeys ==
    [][(processing /\ event'.name \in HotkeyEvents)
         => UNCHANGED <<flagVars, recorderVars, job, status, indicator, mainPc>>]_vars

\* C2 witness: a release (the handler without a processing check) arrived in
\* momentary mode while Processing.
C2_Witness == processing /\ event.name = "release" /\ ~continuous_mode

\* C3: a capture stopped with zero frames dispatches no job, leaves the
\* controller Idle and fires a failure notification.
C3_ZeroFramesBackToIdle ==
    [][(stream # "none" /\ frames = 0 /\ stream' = "none")
         => (/\ job' = job
             /\ Idle'
             /\ event'.notes \cap FailureNotes # {})]_vars

\* A press that opens the input device and starts a capture.
PressStartsCapture == Press /\ stream' = "active"

\* C4: no stuck state.  Whenever no capture stream is held and no job is
\* pending, a press can start a new capture.
C4_NoStuckState ==
    (stream = "none" /\ PendingJobs = {} /\ mainPc = "idle") => ENABLED PressStartsCapture

\* The state left by a failed stop: the recording flag set with no stream held.
Stuck == recording /\ stream = "none" /\ ~processing /\ PendingJobs = {}

\* Supporting C4: no event leads out of Stuck, so no continuation starts a capture.
C4_StuckIsPermanent == [][Stuck => (Stuck' /\ stream' = "none")]_vars

\* C5: completion is serialized with the hotkey events: while a worker that
\* has cleared the processing flag still holds its temporary file, no capture
\* is running and no other job is dispatched.
C5_CompletionSerialized ==
    \A s \in Slots :
        job[s].pc = "unlink" => (stream # "active" /\ PendingJobs = {})

\* C6: the temporary file of a job exists, undeleted, until its worker has
\* left the backend call and the result handling; when the worker has ended,
\* it has been deleted exactly once, after a backend success and after a failure.
C6_ReleasedExactlyOnce ==
    \A s \in Slots :
        /\ job[s].unlinks <= 1
        /\ job[s].pc \in {"transcribe", "finally", "unlink"}
             => (job[s].file /\ job[s].unlinks = 0)
        /\ job[s].pc = "done" => (~job[s].file /\ job[s].unlinks = 1)

\* C6 witness: a worker whose backend call failed has ended and deleted its file.
C6_Witness ==
    \E s \in Slots : job[s].pc = "done" /\ job[s].backend = "fail" /\ job[s].unlinks = 1

\* C7: when the backend call of a job fails, the injector is not invoked, the
\* failure status and the failure notification are emitted (and no completion
\* notification); when its worker clears the flag the controller is Idle, and a
\* press handled next goes on to start a recording.
C7_BackendFailureState ==
    /\ (event.name = "process_audio" /\ job[event.slot].backend = "fail")
         => (/\ event.inj = "none"
             /\ event.notes = {"Transcription failed"}
             /\ status = "failed")
    /\ (event.name = "process_audio_clear" /\ job[event.slot].backend = "fail")
         => Idle

C7_BackendFailure ==
    /\ []C7_BackendFailureState
    /\ [][(event.name = "process_audio_clear" /\ job[event.slot].backend = "fail"
            /\ event'.name = "press")
           => (recording' \/ status' = "recording_error")]_vars

\* C7 witness: after a job whose backend call failed, a press has started a
\* new recording.
C7_Witness ==
    /\ event.name = "press"
    /\ recording /\ stream = "active"
    /\ \E s \in Slots : job[s].pc \in {"unlink", "done"} /\ job[s].backend = "fail"

\* C8: momentary mode end to end.  A release leaves exactly one job pending;
\* when the backend call of a job dispatched by a release succeeds, the text
\* injector is invoked and the completion notification is fired, and when the
\* worker clears the flag the controller is Idle.
C8_MomentaryEndToEnd ==
    /\ (event.name = "release" /\ processing) => Cardinality(PendingJobs) = 1
    /\ \A s \in Slots :
          (event.slot = s /\ job[s].origin = "release" /\ job[s].backend = "ok")
            => /\ event.name = "process_audio"
                   => (event.inj # "none" /\ event.notes = {"Transcription complete"})
               /\ event.name = "process_audio_clear" => Idle

\* Supporting C8: the same with an injector that returns (a failed paste
\* keystroke included): the completion notification is fired.
C8_NominalInjector ==
    /\ (event.name = "release" /\ processing) => Cardinality(PendingJobs) = 1
    /\ \A s \in Slots :
          (event.slot = s /\ job[s].origin = "release" /\ job[s].backend = "ok"
           /\ event.inj # "copy_raised")
            => /\ event.name = "process_audio"
                   => (event.inj # "none" /\ event.notes = {"Transcription complete"}
                       /\ status = "ready")
               /\ event.name = "process_audio_clear" => Idle

\* A double-tap handled outside Processing while a capture is running.
DoubleTapWhileRecording ==
    event'.name = "double_tap" /\ ~processing /\ recording /\ stream = "active"

\* No job dispatched by a double-tap is pending while the controller is Idle.
IdleOnlyAfterDoubleTapJob ==
    \A s \in Slots : (job[s].origin = "double_tap" /\ s \in PendingJobs) => ~Idle

C11_ModeToggledOnlyByDoubleTap ==
    [][/\ continuous_mode' # continuous_mode
           => (event'.name = "double_tap" /\ ~processing)
       /\ (event'.name = "double_tap" /\ ~processing)
           => continuous_mode' = ~continuous_mode]_vars

\* C11 witness: continuous mode is still on after a session started and
\* stopped by presses has been transcribed.
C11_Witness ==
    /\ continuous_mode
    /\ Idle
    /\ \E s \in Slots : job[s].origin = "press" /\ job[s].pc = "done"

\* A press handled in continuous mode outside Processing.
ContinuousPress == event'.name = "press" /\ continuous_mode /\ ~processing

\* Release is ignored in continuous mode, and a press in Idle takes the
\* controller into the recording state unless the device reports an error.
ContinuousReleaseIgnoredPressStarts ==
    /\ (event'.name = "release" /\ continuous_mode)
         => UNCHANGED <<flagVars, recorderVars, job, status, indicator>>
    /\ (ContinuousPress /\ ~recording)
         => (/\ job' = job
             /\ (recording' /\ ~processing') \/ (status' = "recording_error" /\ Idle'))

C13_InjectionFailureNonFatal ==
    /\ (event.name = "process_audio" /\ job[event.slot].backend = "ok"
         /\ event.inj \in {"copy_raised", "paste_failed"})
         => (/\ event.notes = {"Transcription complete"}
             /\ status # "failed")
    /\ (event.name = "process_audio_clear" /\ job[event.slot].backend = "ok")
         => Idle

\* Supporting C13: a failed paste keystroke alone is not fatal.
C13_PasteFailureNonFatal ==
    (event.name = "process_audio" /\ job[event.slot].backend = "ok"
     /\ event.inj = "paste_failed")
      => (event.notes = {"Transcription complete"} /\ status = "ready")

----------------------------------------------------------------------------
(* Claims about the hotkey strings (specification SpecHotkey) *)

\* normalize_hotkey(raw) has been computed / the later calls have been made.
Normalized == hotkeyPc \in {"normalized", "formatted", "reparsed", "renormalized"}
Reparsed == hotkeyPc \in {"reparsed", "renormalized"}
Renormalized == hotkeyPc = "renormalized"

\* What the typed pieces stand for.
TokensOfKind(kinds) == {i \in 1..Len(tokens) : tokens[i].kind \in kinds}
TypedModifiers == {tokens[i].name : i \in TokensOfKind({"modifier"})}
Combo == canonical.ok /\ canonical.value # fn

\* C14: for every accepted raw string, normalizing the display form of its
\* canonical string succeeds and gives the canonical string again.
C14_RoundTrip ==
    Reparsed => (reparsed.ok /\ reparsed.value = canonical.value)

\* Supporting C14: the round trip does hold for fn and for a combo without
\* modifiers whose key survives upper-casing, and the display form of every
\* combo with a modifier is rejected.
C14_RoundTripWithoutModifiers ==
    Reparsed =>
        /\ (TypedModifiers = {} /\ canonical.value # <<"U+00DF">>)
             => (reparsed.ok /\ reparsed.value = canonical.value)
        /\ (Combo /\ TypedModifiers # {}) => ~reparsed.ok

\* C15: for every accepted raw string, normalizing the canonical string
\* succeeds and returns the same canonical string.
C15_Idempotent ==
    Renormalized => (renormalized.ok /\ renormalized.value = canonical.value)

\* C15 witness: a combo with two modifiers and a named key typed through
\* aliases has been normalized twice.
C15_Witness ==
    /\ Renormalized
    /\ Cardinality(TypedModifiers) = 2
    /\ \E i \in TokensOfKind({"key"}) : tokens[i].text # tokens[i].name

\* The spellings of a bare fn.
FnSpellings == {<<"f", "n">>, <<"F", "n">>, <<"f", "N">>, <<"F", "N">>}

\* C16: a raw string that is fn in any letter case, blanks around it, gives
\* "fn"; fn typed together with another non-empty piece (a modifier, a key,
\* an unsupported key or fn again) fails with the "cannot be combined" error.
C16_FnAloneOrRejected ==
    Normalized =>
        /\ strip(raw) \in FnSpellings => canonical = Returned(fn)
        /\ (TokensOfKind({"fn"}) # {}
            /\ Cardinality(TokensOfKind({"fn", "modifier", "key", "unsupported"})) > 1)
             => canonical = Raised("The fn key cannot be combined with other keys.")

\* C16 witness: fn was typed twice and rejected, and (in another run) fn
\* typed alone in mixed case between blanks was accepted.
C16_Witness ==
    /\ Normalized
    /\ \/ Len(tokens) = 2 /\ TokensOfKind({"fn"}) = {1, 2} /\ ~canonical.ok
       \/ Len(tokens) = 1 /\ raw = <<" ", "F", "n", " ">> /\ canonical.ok

\* The order the claim fixes for the modifiers.
ClaimedOrder == <<<<"c", "o", "n", "t", "r", "o", "l">>, <<"o", "p", "t", "i", "o", "n">>, <<"s", "h", "i", "f", "t">>, <<"c", "o", "m", "m", "a", "n", "d">>>>

\* C17: the canonical string of an accepted combo is the distinct modifiers
\* typed, each once, in the order control, option, shift, command, then the
\* primary key, whatever the order, aliases, case and repetition of the
\* pieces; "shift+command+space" is displayed as the shift sign, the command
\* sign and "Space".
C17_CanonicalOrder ==
    /\ (Normalized /\ Combo)
         => \E k \in TokensOfKind({"key"}) :
               canonical.value =
                   join(Append(SelectSeq(ClaimedOrder, LAMBDA m : m \in TypedModifiers),
                               tokens[k].name))
    /\ (hotkeyPc = "formatted" /\ canonical.value = <<"s", "h", "i", "f", "t", "+", "c", "o", "m", "m", "a", "n", "d", "+", "s", "p", "a", "c", "e">>)
         => display = <<"U+21E7", "U+2318", "S", "p", "a", "c", "e">>

\* C17 witness: command typed before shift (and a modifier typed twice, in
\* another run) with the space key, displayed.
C17_Witness ==
    /\ hotkeyPc = "formatted"
    /\ Len(tokens) = 3
    /\ tokens[1].name = <<"c", "o", "m", "m", "a", "n", "d">> /\ tokens[2].name = <<"s", "h", "i", "f", "t">> /\ tokens[3].name = <<"s", "p", "a", "c", "e">>

\* C18: normalize_hotkey raises, returning nothing, when the raw string is
\* empty or blank, when more than one piece is not a modifier, and when a
\* piece that is not a modifier is neither a named key nor one printable
\* character.
C18_Rejected ==
    Normalized =>
        /\ Range(raw) \subseteq Whitespace => canonical = Raised("Hotkey cannot be empty.")
        /\ (\/ Cardinality(TokensOfKind({"fn", "key", "unsupported"})) > 1
            \/ TokensOfKind({"unsupported"}) # {})
             => (~canonical.ok /\ canonical.value = <<>>)

\* C18 witness: the single piece typed is the non-printable character.
C18_Witness ==
    /\ Normalized
    /\ raw = <<"U+0007">>
    /\ canonical = Raised("Unsupported key in shortcut.")

\* A primary key of a canonical string: a named key or one character that is
\* neither blank nor the separator.
IsPrimaryKey(part) ==
    \/ part \in Keys(KEY_DISPLAY)
    \/ Len(part) = 1 /\ part[1] \notin Whitespace \cup {"+"}

\* C19: a returned value is exactly "fn", or modifiers (none, or more)
\* followed by exactly one primary key; modifiers typed without a key are
\* rejected.
C19_FnOrCombo ==
    Normalized =>
        /\ canonical.ok =>
             \/ canonical.value = fn
             \/ LET parts == split(canonical.value)
                IN  /\ IsPrimaryKey(parts[Len(parts)])
                    /\ \A i \in 1..(Len(parts) - 1) : parts[i] \in Range(ClaimedOrder)
        /\ (TokensOfKind({"modifier"}) # {} /\ TokensOfKind({"fn", "key", "unsupported"}) = {})
             => ~canonical.ok

\* C19 witness: only modifiers were typed, and the call raised.
C19_Witness ==
    /\ Normalized
    /\ Len(tokens) = 2 /\ TokensOfKind({"modifier"}) = {1, 2}
    /\ canonical = Raised("A shortcut must include a primary key.")

----------------------------------------------------------------------------
(* Claims about the single-key monitor (specification SpecFn) *)

\* A flags-changed event with the fn flag set arrives while fn is up.
DownEdge == monitoring /\ ~pressed /\ pressed'

\* C20: with a double-tap handler, a down-edge less than the window after the
\* recorded press is reported as a double-tap, and a down-edge the window or
\* more after it as a press.
C20_WindowIsStrict ==
    [][(DownEdge /\ on_double_tap_given)
         => /\ (now - last_press_time < double_tap_window) => callback' = "double_tap"
            /\ (now - last_press_time >= double_tap_window) => callback' = "press"]_vars

\* C20 witness: with a double-tap handler, a down-edge exactly one window
\* after the recorded press has been reported as a press.
C20_Witness ==
    /\ on_double_tap_given
    /\ callback = "press"
    /\ elapsed = double_tap_window
    /\ last_press_time > double_tap_window

\* The callback reported for the down-edge before, if one was reported since
\* the monitor was subscribed.
PreviousDown ==
    IF history # <<>> /\ history[Len(history)] \in {"press", "double_tap"}
    THEN history[Len(history)]
    ELSE IF Len(history) = 2 THEN history[1] ELSE "none"

\* C21: the clock never reading less than the window, the down-edge after a
\* reported double-tap, and the first one after the monitor was subscribed or
\* stopped, is reported as a press however soon it comes; so no two
\* down-edges in a row are reported as double-taps.
C21_DoubleTapConsumesPair ==
    [][DownEdge =>
         /\ PreviousDown \in {"none", "double_tap"} => callback' = "press"
         /\ ~(PreviousDown = "double_tap" /\ callback' = "double_tap")]_vars

\* C21 witness: a press, a double-tap and a third down-edge have all come
\* within a tenth of a second, and the third is reported as a press.
C21_Witness ==
    /\ history = <<"release", "press">>
    /\ callback = "press"
    /\ elapsed = now
    /\ on_double_tap_given
    /\ now = double_tap_window + 1

\* C22: a change of the signal from up to down makes exactly one call, of
\* onPress or onDoubleTap; a change from down to up makes one call of
\* onRelease; a signal repeating the level makes no call; and every
\* onRelease follows a press or double-tap that was not released yet.
C22_EdgeTriggered ==
    [][\A is_pressed \in BOOLEAN : handle(is_pressed) =>
         /\ (is_pressed /\ ~pressed) => (callback' \in {"press", "double_tap"} /\ pressed')
         /\ (~is_pressed /\ pressed) => (callback' = "release" /\ ~pressed')
         /\ (is_pressed = pressed) => (callback' = "none" /\ pressed' = pressed)
         /\ callback' = "release"
              => (history # <<>> /\ history[Len(history)] \in {"press", "double_tap"})]_vars

\* C22 witness: a double-tap has been released.
C22_Witness ==
    /\ history = <<"double_tap", "release">>
    /\ callback = "release"
    /\ ~pressed

----------------------------------------------------------------------------
(* Claims about the combination monitor (specification SpecCombo) *)

\* The modifiers the combination requires, and whether an event is made with
\* its primary key: the key code for a special key, the character in either
\* case otherwise.
RequiredModifiers == Range(split_hotkey(combo).modifiers)
PrimaryKeyMatches(e) ==
    LET key == split_hotkey(combo).key
    IN  IF key \in Keys(KEY_DISPLAY)
        THEN keyCode(e) = get(special_keycodes, key, "None")
        ELSE charactersIgnoringModifiers(e) \in {key, upper(key)}

\* C23: onPress is called only for a key-down event with every required
\* modifier active and the primary key matching, while the pressed flag is
\* false; a key-down event while the flag is true calls nothing.
C23_PressOnlyOnMatchingKeyDown ==
    [][/\ combo_callback' = "press"
           => (/\ combo_event'.type = "key_down"
               /\ RequiredModifiers \subseteq combo_event'.flags
               /\ PrimaryKeyMatches(combo_event')
               /\ ~combo_pressed /\ combo_pressed')
       /\ (combo_event'.type = "key_down" /\ combo_pressed)
           => (combo_callback' = "none" /\ combo_pressed')]_vars

\* C23 witness: a matching key-down event (shift held with a character key)
\* arrived while the flag was set, and nothing was called.
C23_Witness ==
    /\ combo_event.type = "key_down"
    /\ combo_event.key = "a" /\ combo_event.flags = {<<"s", "h", "i", "f", "t">>, <<"c", "o", "m", "m", "a", "n", "d">>}
    /\ matches(combo_event)
    /\ combo_pressed
    /\ combo_callback = "none"

\* C24: while pressed, a key-up event of the primary key, and a modifier
\* change that leaves a required modifier inactive, call onRelease and clear
\* the flag; onPress and onRelease alternate, onPress first.
C24_ReleasePathsAlternate ==
    [][/\ (combo_pressed /\ combo_event'.type = "key_up" /\ PrimaryKeyMatches(combo_event'))
           => (combo_callback' = "release" /\ ~combo_pressed')
       /\ (combo_pressed /\ combo_event'.type = "flags_changed"
           /\ ~(RequiredModifiers \subseteq combo_event'.flags))
           => (combo_callback' = "release" /\ ~combo_pressed')
       /\ combo_callback' = "press" => combo_last # "press"
       /\ combo_callback' = "release" => combo_last = "press"]_vars

\* C24 witness: the press of a key with two modifiers was released by a
\* modifier going up while the other one stayed down.
C24_Witness ==
    /\ combo_event.type = "flags_changed"
    /\ Cardinality(combo_event.flags \cap RequiredModifiers) = 1
    /\ combo_callback = "release"
    /\ combo_last = "release"
    /\ ~combo_pressed

----------------------------------------------------------------------------
(* Claims about both monitors (specification SpecMonitors) *)

\* C25: for both monitors, stop() leaves no subscription and resets the
\* pressed flag (and the timer); stop() on a monitor that is not subscribed
\* changes nothing; start() on a subscribed monitor adds no subscription.
C25_StopIdempotent ==
    [][/\ FnStop => (~monitoring' /\ installed' = 0 /\ ~pressed' /\ last_press_time' = 0)
       /\ (FnStop /\ ~monitoring)
           => UNCHANGED <<monitoring, installed, pressed, last_press_time>>
       /\ (FnStart /\ monitoring) => UNCHANGED <<monitoring, installed>>
       /\ ComboStop => (~combo_monitoring' /\ combo_installed' = 0 /\ ~combo_pressed')
       /\ (ComboStop /\ ~combo_monitoring)
           => UNCHANGED <<combo_monitoring, combo_installed, combo_pressed>>
       /\ (ComboStart /\ combo_monitoring) => UNCHANGED <<combo_monitoring, combo_installed>>]_vars

\* C25 witness: start() has been called on a combination monitor that was
\* subscribed and had its combination held down, and six handlers are held.
C25_Witness ==
    /\ hotkey_monitor = "combo"
    /\ combo_event.type = "start"
    /\ combo_pressed /\ combo_monitoring
    /\ combo_installed = 6

----------------------------------------------------------------------------
(* Claims about the controller, continued (specification Spec) *)

\* A press in Idle whose attempt to start the capture raised.
StartFailedOnPress == event'.name = "press" /\ Idle /\ status' = "recording_error"

\* C26: when starting the capture fails on a press, the controller stays
\* Idle, no stream is held by the recorder, no job is dispatched and the
\* error is shown; and a later press in Idle tries the device again, so it
\* either captures or shows the error once more.
C26_StartFailureStaysIdle ==
    [][/\ StartFailedOnPress
           => (Idle' /\ stream' = "none" /\ openStreams' = 0 /\ job' = job)
       /\ (event'.name = "press" /\ Idle /\ status = "recording_error")
           => (stream' = "active" \/ status' = "recording_error")]_vars

\* Supporting C26: the claim holds when it is the creation of the stream
\* that fails, and the flags and the jobs are as claimed in both cases.
C26_CtorFailureStaysIdle ==
    [][StartFailedOnPress
         => (/\ Idle' /\ job' = job /\ ~indicator'
             /\ stream' \in {"none", "unstarted"}
             /\ stream' = "none" => openStreams' = openStreams)]_vars

----------------------------------------------------------------------------
(* Claims about the single-key monitor driving the controller (SpecApp) *)

\* A capture running in continuous mode.
CapturingContinuous == continuous_mode /\ recording /\ stream = "active"

\* The fn key goes down while a capture is running in continuous mode.
SecondPress == hotkey_monitor = "fn" /\ DownEdge /\ CapturingContinuous

MonitorCreationFailed == event.name # "init" /\ hotkey_monitor = "none"

\* C29: when the creation of the hotkey monitor fails, the controller runs on
\* with no monitor: no handler is left installed, the controller is at rest
\* and the status shows the hotkey error, not the ready prompt; and the
\* status stays so, no step of the controller being left to change it.
C29_CreationFailureLeavesNoMonitor ==
    /\ [](MonitorCreationFailed
            => (/\ status = "hotkey_error"
                /\ ~monitoring /\ installed = 0
                /\ Idle /\ ~continuous_mode /\ stream = "none"))
    /\ [][/\ status = "hotkey_error" => status' = "hotkey_error"
          /\ MonitorCreationFailed => MonitorCreationFailed'
          /\ (event.name = "init" /\ hotkey_monitor' = "fn")
              => (monitoring' /\ installed' = 2 /\ status' = "ready")]_vars

\* C29 witness: _reload_hotkey_monitor has returned from its except branch.
C29_Witness ==
    /\ event.name = "reload"
    /\ hotkey_monitor = "none"
    /\ status = "hotkey_error"

----------------------------------------------------------------------------
(* Claims about the configuration (SpecConstruct, SpecConfig) *)

\* The hotkey a configuration file holds (the empty string when it holds none).
StoredHotkey(file) == get(file.payload, "hotkey", <<>>)
HoldsHotkey(file) == file.exists /\ "hotkey" \in Keys(file.payload)

\* C28: when the controller is constructed, a stored hotkey that does not
\* normalize is replaced by "fn", which is written to the configuration and
\* used for the monitor; a stored hotkey that is valid but not canonical is
\* rewritten in the configuration to its canonical form; and a canonical
\* stored hotkey causes no write of the configuration.
C28_StoredHotkeyCanonicalised ==
    [][(Construct /\ HoldsHotkey(config_file))
         => LET stored == StoredHotkey(config_file)
                normalized == normalize_hotkey(stored)
            IN  /\ app_init'.ok
                /\ ~normalized.ok
                    => (app_init'.hotkey = fn /\ StoredHotkey(config_file') = fn)
                /\ (normalized.ok /\ normalized.value # stored)
                    => (/\ app_init'.hotkey = normalized.value
                        /\ StoredHotkey(config_file') = normalized.value)
                /\ (normalized.ok /\ normalized.value = stored)
                    => (app_init'.hotkey = stored /\ config_file' = config_file)]_vars

\* Supporting C28: no construction gets past the hotkey: a file that holds a
\* hotkey makes load_config raise TypeError, any other makes the read of
\* Config.hotkey raise AttributeError; the file is left as it was.
C28_ConstructionRaises ==
    [][Construct
         => (/\ ~app_init'.ok
             /\ app_init'.error = IF HoldsHotkey(config_file) THEN "TypeError"
                                  ELSE "AttributeError"
             /\ config_file' = config_file)]_vars

\* The keys of the call of update_config a step makes, and whether the
\* configuration read back after it holds every value the call was given.
CallKeys == {config_call'[i][1] : i \in 1..Len(config_call')}
CallPersisted ==
    /\ config_result'.ok
    /\ load_config(config_file').ok
    /\ \A i \in 1..Len(config_call') :
          load_config(config_file').config[config_call'[i][1]] = config_call'[i][2]

\* C30: update_config with a key that is no field of Config raises
\* ConfigError and leaves the stored configuration as it was, also when
\* valid keys come before that key in the call; update_config with fields
\* only stores every new value.
C30_UnknownKeyRejected ==
    [][/\ ~(CallKeys \subseteq ConfigFields)
           => (config_result'.error = "ConfigError" /\ config_file' = config_file)
       /\ CallKeys \subseteq ConfigFields => CallPersisted]_vars

\* Supporting C30: the claim holds of the calls whose keys are fields or no
\* attributes at all; a key that names another attribute of the object is
\* not rejected by hasattr, and the call raises what setattr raises, or
\* returns; the file stays one that load_config reads.
C30_NonAttributeRejected ==
    [][/\ (CallKeys \subseteq ConfigFields \cup UnknownKeys /\ CallKeys \cap UnknownKeys # {})
           => (config_result'.error = "ConfigError" /\ config_file' = config_file)
       /\ CallKeys \subseteq ConfigFields => CallPersisted
       /\ ~config_result'.ok => config_file' = config_file
       /\ config_file' \in WrittenFiles]_vars

----------------------------------------------------------------------------
(* Claims about save_config and load_config (SpecStore) *)

\* C31: load_config after save_config(c) returns a Config equal to c in
\* every field, and load_config with no file returns the default Config;
\* load_config raises in neither case.
C31_ConfigRoundTrip ==
    /\ config_result.error \in {"none", "not called"}
    /\ config_result.ok
        => /\ config_saved.saved
               => \A k \in ConfigFields : config_result.config[k] = config_saved.config[k]
           /\ ~config_file.exists => config_result.config = Config_defaults

\* C31 witness: a Config that differs from the default and has a field that
\* is None (which save_config leaves out) was saved and loaded again.
C31_Witness ==
    /\ config_saved.saved /\ config_result.ok
    /\ config_saved.config # Config_defaults
    /\ config_saved.config["openai_api_key"] = "None"
    /\ "openai_api_key" \notin Keys(config_file.payload)
    /\ config_result.config = config_saved.config

----------------------------------------------------------------------------
(* Claims about Storage (SpecStorage) *)

\* The fields of a record that add_transcript and update_summary are given.
GivenFields(record) ==
    [present |-> TRUE, title |-> record.title, transcript |-> record.transcript,
     audio_path |-> record.audio_path, summary |-> record.summary,
     metadata |-> record.metadata]

\* C32: Storage behaves as a map from ids to records: get_transcript(id)
\* returns the fields given to the add_transcript that returned id (with
\* the summary update_summary gave it last), and raises StorageError for an
\* id that was deleted or never returned; update_summary changes the row of
\* its id only; and add_transcript never returns an id it has returned before.
C32_StorageIsAMap ==
    /\ [](\A id \in Ids :
            IF given[id].present
            THEN /\ get_transcript(rows, id).ok
                 /\ GivenFields(get_transcript(rows, id).record) = given[id]
                 /\ get_transcript(rows, id).record.id = id
            ELSE get_transcript(rows, id).error = "StorageError")
    /\ [][/\ store_call'.op = "add_transcript"
              => (store_call'.id \notin handed /\ ~given[store_call'.id].present)
          /\ store_call'.op = "update_summary"
              => \A id \in Ids \ {store_call'.id} : rows'[id] = rows[id]
          /\ store_call'.op = "delete_transcript"
              => get_transcript(rows', store_call'.id).error = "StorageError"]_vars

\* C32 witness: every id has been returned, the row of the smallest id was
\* deleted, and the summary of a row that is left was replaced by
\* update_summary at a later time than the row was added.
C32_Witness ==
    /\ store_call.op = "update_summary"
    /\ handed = Ids
    /\ \E id \in Ids :
          /\ ~rows[id].present
          /\ \A other \in Ids \ {id} : rows[other].present /\ other > id
    /\ rows[store_call.id].present
    /\ rows[store_call.id].summary = "Plans summary"
    /\ rows[store_call.id].updated_at > rows[store_call.id].created_at

----------------------------------------------------------------------------
(* C33 *)

\* The transcript without its white space.
Unspaced(text) == SelectSeq(text, LAMBDA c : c \notin Whitespace)

\* The sentences of a transcript are its text cut at white space: none is
\* empty, none begins or ends with white space, and together they hold the
\* characters of the transcript in order.
SentencesOfTranscript ==
    LET sentences == split_sentences(transcript)
    IN  /\ \A k \in 1..Len(sentences) :
              /\ sentences[k] # <<>>
              /\ sentences[k][1] \notin Whitespace
              /\ sentences[k][Len(sentences[k])] \notin Whitespace
        /\ Unspaced(concat(sentences)) = Unspaced(transcript)

\* C33: what summarise returns is sentences of the transcript in the order
\* they have in the transcript, joined by single spaces: all of them when
\* there are at most max_sentences, and otherwise exactly max_sentences of
\* them, none of which has a lower score than one that was left out; a
\* transcript without text gives the empty summary.
C33_SummaryIsTopSentencesInOrder ==
    summary.done =>
        LET sentences == split_sentences(transcript)
            chosen    == summary.indices
        IN  /\ SentencesOfTranscript
            /\ \A k \in 1..Len(chosen) : chosen[k] \in 1..Len(sentences)
            /\ \A k \in 1..(Len(chosen) - 1) : chosen[k] < chosen[k + 1]
            /\ summary.text =
                   join_spaced([k \in 1..Len(chosen) |-> sentences[chosen[k]]])
            /\ Len(sentences) <= max_sentences => Len(chosen) = Len(sentences)
            /\ Len(sentences) > max_sentences =>
                   /\ Len(chosen) = max_sentences
                   /\ \A i \in Range(chosen) :
                          \A j \in (1..Len(sentences)) \ Range(chosen) :
                              scores[i] >= scores[j]
            /\ Unspaced(transcript) = <<>> => summary.text = <<>>

\* summarise has chosen two of three sentences, and the last one scored
\* higher than the first.
C33_Witness ==
    /\ summary.done
    /\ max_sentences = 2
    /\ Len(split_sentences(transcript)) = 3
    /\ scores[3] > scores[1]
    /\ summary.indices = <<2, 3>>

----------------------------------------------------------------------------
(* Invariants of the controller (specification Spec) *)

\* The audio recorder has an active capture stream: AudioRecorder._stream is
\* held and was started.
ActiveCapture == stream = "active"

\* C34: in every reachable state the recording flag is set if and only if
\* the audio recorder has an active capture stream.
C34_RecordingIffActiveStream == recording <=> ActiveCapture

\* Supporting C34: a capture that runs is always flagged.
C34_ActiveStreamIsFlagged == ActiveCapture => recording

\* The status text is the ready prompt "Hold <hotkey> to record.".
ReadyPrompt == status = "ready"

\* C36: whenever the status text is the ready prompt the controller is Idle,
\* neither recording nor processing, and no dispatched job is in flight.
C36_ReadyPromptMeansIdle == ReadyPrompt => (Idle /\ PendingJobs = {})

\* A state that refutes C36 with audio captured and no failure: the ready
\* prompt is shown while the job dispatched by a double tap is transcribing.
ReadyPromptOverRunningJob ==
    /\ ReadyPrompt /\ processing /\ ~recording /\ stream = "none"
    /\ \E s \in Slots : job[s].pc = "transcribe" /\ job[s].origin = "double_tap"

\* No controller event handler is under way on the main thread.
HandlersFinished == mainPc = "idle"

\* C37: after every controller event handler has finished, the recording
\* indicator is visible if and only if the audio recorder has an active
\* capture stream.
C37_IndicatorIffActiveStream == HandlersFinished => (indicator <=> ActiveCapture)

\* Supporting C37: while the recorder holds no stream that failed to start,
\* the indicator is visible exactly when a capture runs.
C37_HoldsOfStartedStreams == stream # "unstarted" => (indicator <=> ActiveCapture)

\* Supporting C37: the indicator is never visible without the recording flag,
\* and a stop, failing or not, leaves it hidden with no stream held.
C37_StopHidesIndicator ==
    /\ indicator => recording
    /\ [][(stream # "none" /\ stream' = "none") => ~indicator']_vars

----------------------------------------------------------------------------
(* The double-tap gesture from Idle (specification SpecApp) *)

\* The worker threads started by a release in momentary mode (a tap that
\* captured audio) that have not ended, and those of them that have not yet
\* cleared the processing flag.
TapJobsRunning ==
    {s \in Slots : job[s].origin = "release" /\ job[s].pc \in {"transcribe", "finally", "unlink"}}
TapJobsPending == TapJobsRunning \cap PendingJobs

\* The second press of a double-tap gesture in momentary mode: the fn key,
\* released after the first press, goes down again within the window.
SecondTap ==
    /\ hotkey_monitor = "fn"
    /\ DownEdge
    /\ now - last_press_time < double_tap_window
    /\ ~continuous_mode

\* C35: with the single-key monitor driving the controller from Idle in
\* momentary mode and audio captured, the second press of a double-tap
\* gesture that comes while the job dispatched by the first tap is still
\* running switches continuous mode on.
C35_DoubleTapOverRunningJobSwitchesOn ==
    [][(SecondTap /\ TapJobsRunning # {}) => continuous_mode']_vars

\* C35 amended: the second press is reported as a double-tap; while the job
\* of the first tap has not cleared the processing flag it changes nothing,
\* continuous mode staying off; once the flag is cleared, it switches
\* continuous mode on and starts no capture.
C35_DoubleTapWaitsForJob ==
    [][/\ SecondTap => callback' = "double_tap"
       /\ (SecondTap /\ TapJobsPending # {})
           => (/\ processing
               /\ ~continuous_mode'
               /\ UNCHANGED <<flagVars, recorderVars, job, status, indicator>>)
       /\ (SecondTap /\ TapJobsRunning # {} /\ TapJobsPending = {} /\ ~processing)
           => (/\ continuous_mode'
               /\ status' = "continuous_hint"
               /\ UNCHANGED <<recording, processing, recorderVars, job>>)]_vars

\* C35 witness: the second press of the gesture was reported as a double-tap
\* while the job of the first tap was transcribing, and continuous mode is off.
C35_Witness ==
    /\ hotkey_monitor = "fn"
    /\ callback = "double_tap" /\ event.name = "double_tap"
    /\ elapsed < double_tap_window
    /\ ~continuous_mode /\ processing /\ ~recording
    /\ \E s \in Slots : job[s].pc = "transcribe" /\ job[s].origin = "release"

----------------------------------------------------------------------------
(* C38 *)

\* C38: under any interleaving of concurrent calls of _initialise_backend at
\* most one WhisperBackend is constructed, and every caller that returns
\* returns that one instance, the one the module holds.
C38_BackendConstructedOnce ==
    /\ constructed <= 1
    /\ api_backend \in {0, constructed}
    /\ \A t \in Callers :
          caller[t].outcome = "returned"
              => (caller[t].value = 1 /\ caller[t].value = api_backend)

\* C38 witness: two threads found no backend at the first check and went
\* through the lock; one backend was constructed and both returned it.
C38_Witness ==
    /\ constructed = 1
    /\ \A t \in Callers :
          /\ caller[t].outcome = "returned" /\ caller[t].locked
          /\ caller[t].pc = "outside" /\ caller[t].value = api_backend

====
